---------------------------- MODULE Spec2Model ----------------------------
(***************************************************************************)
(* Model of the cookie pool engine of cookies-service:                     *)
(*   - CookieService      (the artifact store, src/services/cookieService.js)*)
(*   - CookiePoolManager  (the pool scheduler, same file, second half)      *)
(*   - CookieRefreshTracker (the attempt tracker, three variants in         *)
(*     src/services/cookieRefreshService.js and cookieRefreshTracker.js)    *)
(* The program is single-threaded JavaScript: a handler runs atomically    *)
(* from one `await` to the next, so every action below is one such run.    *)
(* Timestamps are milliseconds since the service started.                  *)
(***************************************************************************)
EXTENDS Integers, Sequences, FiniteSets, TLC

(***************************************************************************)
(* Bounds of the model.                                                    *)
(***************************************************************************)
\* options.maxConcurrentBrowsers of the run (the default is 3)
MaxConcurrentBrowsers == 1
\* options.maxRetries of the run (the default is 3)
MaxRetries == 1
\* processVisits invocations that may be in flight at once
MaxTicks == 2
\* setInterval timers that may be alive at once (start() creates two)
MaxIntervals == 3
\* size of the universe of cookieId values (crypto.randomUUID draws)
MaxCookies == 1
\* number of 5-minute clock steps the clock may take
MaxClockSteps == 2
\* number of quarter-hour clock steps the refresh schedule is followed for
MaxQuarterHours == 3
\* refreshPromise executors, running or with a context left open, at a time
MaxExecutors == 2
\* servings of one document the model follows
MaxUses == 2
\* size of the universe of refreshId values (crypto.randomUUID draws)
MaxRefreshes == 1
\* longest payload handed to an observed storeCookies call
MaxPayloadLen == 2
\* documents in the store that getBestCookies ranks
MaxRanked == 2
\* largest consecutiveFailures handed to calculateBackoffDelay
MaxFailures == 7
\* longest proxyHelper.proxies list
MaxProxies == 2
\* options.minCookiePool of the run (the default is 500)
MinCookiePool == 1
\* options.maxCookiePool of the run (the default is 700)
MaxCookiePool == 2

(***************************************************************************)
(* Program constants.                                                      *)
(***************************************************************************)
FiveMinutes == 5 * 60 * 1000
DefaultExpiry == 24 * 60 * 60 * 1000
MinQualityThreshold == 50
FailedScoreThreshold == 20
CleanupScoreFloor == 10
MaxScore == 100
InitialScore == 100
SuccessBonus == 1
FailurePenalty == 5

NoTimer == 0
NoCookie == 0
NoDomain == "null"
\* tmptValue = null
NoValue == "null"
\* the null a proxy function returns, and no call made yet
NoProxy == "null"
NoResult == [op |-> "none", avoid |-> FALSE, current |-> NoProxy,
             proxy |-> NoProxy, picks |-> 0, call |-> 0]
\* no storeCookies call observed yet
NoPut == [cookieId |-> NoCookie, outcome |-> "none"]
\* a Date field of a CookieRefresh record that was never set
NoDate == 0 - 1
ThirtyMinutes == 30 * 60 * 1000
OneHour == 60 * 60 * 1000
TenMinutes == 10 * 60 * 1000
FifteenMinutes == 15 * 60 * 1000
MaxFreshAttempts == 10
MaxCaptureRetries == 5
MinTargetCookies == 3
MinJsonLines == 200
\* the lines one cookie takes in JSON.stringify(cookies, null, 2): the eight
\* fields of a browser cookie and its two braces
LinesPerCookie == 10
MaxRefreshRetries == 3
MaxInitAttempts == 3
DefaultDomain == "ticketmaster.com"

VARIABLES
  now,            \* Date.now()
  Cookie,         \* the Cookie collection: cookieId -> document
  bestCalls,      \* getBestCookies invocations in flight
  apiCalls,       \* getCookies controller requests in flight
  qualityCalls,   \* updateCookieQuality invocations in flight
  isRunning,      \* CookiePoolManager.isRunning
  visitTimer,     \* CookiePoolManager.visitTimer (a timeout handle)
  cleanupTimer,   \* CookiePoolManager.cleanupTimer (an interval handle)
  timeouts,       \* armed setTimeout handles of scheduleNextVisit
  intervals,      \* live setInterval handles -> the callback each runs
  ticks,          \* processVisits invocations in flight
  sessions,       \* processSingleEvent invocations in flight -> retries
  activeBrowsers, \* CookiePoolManager.activeBrowsers
  CookieRefresh,  \* the CookieRefresh collection: refreshId -> record
  markCalls,      \* markSuccess / markFailed invocations in flight
  markOutcome,    \* how the last completed markSuccess / markFailed ended
  putResult,      \* how the last observed storeCookies call ended
  proxies,        \* proxyHelper.proxies: the configured proxy strings
  failedProxies,  \* the failedProxies set
  failedTimers,   \* armed setTimeout handles of markProxyAsFailed
  proxyResult,    \* what the last getRandomProxy / getFreshProxy returned
  refreshCalls,   \* refreshCookies attempts between proxy choice and launch
  browserLaunch,  \* the proxy of the last initBrowser launch
  backoffDelays,  \* calculateBackoffDelay results: consecutiveFailures -> ms
  refreshDue,     \* what the last isRefreshDue returned
  visits,         \* where each session stands in processSingleEvent
  executors,      \* refreshPromise executors that are still running
  contexts,       \* open browser contexts: executor -> its session
  rejections      \* sessions whose detached promise rejected

callVars == <<bestCalls, apiCalls, qualityCalls>>
storeVars == <<now, Cookie, bestCalls, apiCalls, qualityCalls>>
poolVars == <<isRunning, visitTimer, cleanupTimer, timeouts, intervals,
              ticks, sessions, activeBrowsers>>
trackerVars == <<CookieRefresh, markCalls, markOutcome>>
sessionVars == <<visits, executors, contexts, rejections>>
rotatorVars == <<proxies, failedProxies, failedTimers, proxyResult,
                 refreshCalls, browserLaunch>>
vars == <<now, Cookie, bestCalls, apiCalls, qualityCalls, isRunning,
          visitTimer, cleanupTimer, timeouts, intervals, ticks, sessions,
          activeBrowsers, CookieRefresh, markCalls, markOutcome, putResult,
          proxies, failedProxies, failedTimers, proxyResult, refreshCalls,
          browserLaunch, backoffDelays, refreshDue, visits,
          executors, contexts, rejections>>

(***************************************************************************)
(* Helpers.                                                                *)
(***************************************************************************)
Min(a, b) == IF a < b THEN a ELSE b
Max(a, b) == IF a > b THEN a ELSE b

\* the smallest positive id not in `used`: a fresh handle / uuid
FreshId(used) ==
  CHOOSE i \in 1..(Cardinality(used) + 1) :
    i \notin used /\ \A j \in 1..(i - 1) : j \in used

\* f without the key k
Without(f, k) == [x \in (DOMAIN f) \ {k} |-> f[x]]

\* f with key k set to v
With(f, k, v) == [x \in (DOMAIN f) \cup {k} |-> IF x = k THEN v ELSE f[x]]

(***************************************************************************)
(* CookieService: the artifact store.                                      *)
(***************************************************************************)
CookieIds == 1..MaxCookies

\* cookie.expires is in seconds; new Date(cookie.expires * 1000)
ExpiresToMs(expires) == expires * 1000

\* the forEach of storeCookies over the payload, from the 24 h default
RECURSIVE EarliestExpiryFrom(_, _, _)
EarliestExpiryFrom(payload, earliest, t) ==
  IF payload = <<>> THEN earliest
  ELSE LET cookie == Head(payload)
           cookieExpiry == ExpiresToMs(cookie.expires)
           next == IF /\ cookie.expires > 0
                      /\ cookieExpiry < earliest
                      /\ cookieExpiry > t
                   THEN cookieExpiry ELSE earliest
       IN EarliestExpiryFrom(Tail(payload), next, t)

EarliestExpiry(payload, t) == EarliestExpiryFrom(payload, t + DefaultExpiry, t)

\* the document Cookie.create builds in storeCookies
NewCookieRecord(payload, domain, tags, t) ==
  [ cookies        |-> payload,
    domain         |-> IF domain = NoDomain THEN DefaultDomain ELSE domain,
    tags           |-> tags,
    isValid        |-> TRUE,
    expiresAt      |-> EarliestExpiry(payload, t),
    lastUsed       |-> t,
    usageCount     |-> 0,
    score          |-> InitialScore,
    lastSuccessful |-> t,
    status         |-> "active",
    updatedAt      |-> t ]

\* a storeCookies that replaces the document on a duplicate cookieId
StoreCookiesOverwriting(coll, cookieId, payload, domain, tags, t) ==
  With(coll, cookieId, NewCookieRecord(payload, domain, tags, t))

\* storeCookies: the collection after the call; a duplicate cookieId (error
\* code 11000 of the unique index) leaves the collection as it is
StoreCookies(coll, cookieId, payload, domain, tags, t) ==
  IF cookieId \in DOMAIN coll THEN coll
  ELSE With(coll, cookieId, NewCookieRecord(payload, domain, tags, t))

\* cleanupExpiredCookies: the two deleteMany calls
CleanupExpiredCookies(coll, t) ==
  LET afterExpired == [c \in {x \in DOMAIN coll : ~(coll[x].expiresAt < t)}
                         |-> coll[c]]
  IN [c \in {x \in DOMAIN afterExpired :
               ~(/\ afterExpired[x].isValid = FALSE
                 /\ afterExpired[x].updatedAt < t - DefaultExpiry)}
        |-> afterExpired[c]]

\* a cleanup that also deletes what getBestCookies would no longer serve
CleanupCookiesBelowQuality(coll, t) ==
  [c \in {x \in DOMAIN coll :
            ~(\/ coll[x].expiresAt < t
              \/ coll[x].status = "failed"
              \/ coll[x].score < MinQualityThreshold)}
     |-> coll[c]]

\* CookieService.cleanup: one deleteMany with $or
CleanupCookies(coll, t) ==
  [c \in {x \in DOMAIN coll :
            ~(\/ coll[x].expiresAt < t
              \/ coll[x].status = "failed"
              \/ coll[x].score < CleanupScoreFloor)}
     |-> coll[c]]

\* payloads a browser visit or an API caller may hand to storeCookies at t:
\* expires is in seconds, -1 marks a session cookie
SecondsOf(ms) == ms \div 1000
Payloads(t) ==
  { <<>>,
    << [name |-> "sid", value |-> "s", expires |-> -1] >>,
    << [name |-> "auth_token", value |-> "x",
        expires |-> SecondsOf(t + FiveMinutes)] >>,
    << [name |-> "sid", value |-> "s", expires |-> SecondsOf(t)],
       [name |-> "auth_token", value |-> "x",
        expires |-> SecondsOf(t + 2 * FiveMinutes)] >> }

\* what a browser visit of a pool session captures at t (result.cookies)
BrowserPayloads(t) ==
  { << [name |-> "auth_token", value |-> "x",
        expires |-> SecondsOf(t + FiveMinutes)] >> }

\* ---- storeCookies observed by its caller -----------------------------------

\* the sequences over S of length at most n
SeqsUpTo(S, n) == UNION {[1..k -> S] : k \in 0..n}

\* cookie entries a caller may hand over at t: a session cookie, one that
\* expired five minutes ago, and ones expiring in 5 minutes, 1 hour and 24 h 5 min
PutEntries(t) ==
  { [name |-> "sid", value |-> "s", expires |-> -1],
    [name |-> "sid", value |-> "s", expires |-> SecondsOf(t) - SecondsOf(FiveMinutes)],
    [name |-> "session_id", value |-> "y", expires |-> SecondsOf(t + FiveMinutes)],
    [name |-> "auth_token", value |-> "x", expires |-> SecondsOf(t) + 3600],
    [name |-> "auth_token", value |-> "x",
     expires |-> SecondsOf(t + DefaultExpiry + FiveMinutes)] }

PutPayloads(t) == SeqsUpTo(PutEntries(t), MaxPayloadLen)

\* storeCookies returns: the new record, or null on a duplicate cookieId
StoreCookiesReturns(c, payload, domain, tags) ==
  /\ Cookie' = StoreCookies(Cookie, c, payload, domain, tags, now)
  /\ putResult' = [cookieId |-> c,
                   outcome |-> IF c \in DOMAIN Cookie THEN "null" ELSE "stored"]
  /\ UNCHANGED <<now, callVars, poolVars, trackerVars, rotatorVars, backoffDelays, refreshDue, sessionVars>>

\* Cookie.create fails with an error other than code 11000: storeCookies
\* rethrows it
StoreCookiesThrows(c) ==
  /\ putResult' = [cookieId |-> c, outcome |-> "thrown"]
  /\ UNCHANGED <<now, Cookie, callVars, poolVars, trackerVars, rotatorVars, backoffDelays, refreshDue, sessionVars>>

\* ---- getBestCookies --------------------------------------------------------

\* a query of getBestCookies that forgets the expiry check
MatchesBestIgnoringExpiry(doc, criteria, t) ==
  /\ doc.status = "active"
  /\ doc.isValid = TRUE
  /\ doc.score >= MinQualityThreshold
  /\ (criteria.domain # NoDomain => doc.domain = criteria.domain)
  /\ (criteria.tags # {} => doc.tags \cap criteria.tags # {})
  /\ (criteria.excludeUsedRecently => doc.lastUsed < t - FiveMinutes)
  /\ (criteria.maxUsageCount > 0 => doc.usageCount < criteria.maxUsageCount)

\* the query getBestCookies builds at t
MatchesBest(doc, criteria, t) ==
  /\ doc.status = "active"
  /\ doc.isValid = TRUE
  /\ doc.expiresAt > t
  /\ doc.score >= MinQualityThreshold
  /\ (criteria.domain # NoDomain => doc.domain = criteria.domain)
  /\ (criteria.tags # {} => doc.tags \cap criteria.tags # {})
  /\ (criteria.excludeUsedRecently => doc.lastUsed < t - FiveMinutes)
  /\ (criteria.maxUsageCount > 0 => doc.usageCount < criteria.maxUsageCount)

\* a sort that breaks score ties towards the most used document
SortsBeforeMostUsed(a, b) ==
  \/ a.score > b.score
  \/ a.score = b.score /\ a.usageCount > b.usageCount

\* .sort({ 'quality.score': -1, 'validity.usageCount': 1 }): a comes before b
SortsBefore(a, b) ==
  \/ a.score > b.score
  \/ a.score = b.score /\ a.usageCount < b.usageCount

\* the documents Cookie.findOne(query).sort(...) may return at t
BestCookies(coll, criteria, t) ==
  LET matching == {c \in DOMAIN coll : MatchesBest(coll[c], criteria, t)}
  IN {c \in matching : \A d \in matching : ~SortsBefore(coll[d], coll[c])}

\* a usage update that stamps the document and does not count
RecordUsageUncounted(coll, c, t) ==
  IF c \in DOMAIN coll
    THEN [coll EXCEPT ![c].lastUsed = t, ![c].updatedAt = t]
    ELSE coll

\* $inc usageCount, $set lastUsed (timestamps: true also sets updatedAt)
RecordUsage(coll, c, t) ==
  IF c \in DOMAIN coll
    THEN [coll EXCEPT ![c].usageCount = @ + 1,
                      ![c].lastUsed = t,
                      ![c].updatedAt = t]
    ELSE coll

\* the calls in flight that hold document c and have yet to record its usage
PendingUses(c) ==
  Cardinality({r \in DOMAIN bestCalls : bestCalls[r].cookieId = c})
  + Cardinality({a \in DOMAIN apiCalls : apiCalls[a].cookieId = c})

\* the documents some call in flight holds
HeldCookies ==
  {bestCalls[r].cookieId : r \in DOMAIN bestCalls}
  \cup {apiCalls[a].cookieId : a \in DOMAIN apiCalls}
  \cup {qualityCalls[f].cookieId : f \in DOMAIN qualityCalls}

\* getBestCookies from its call to the answer of Cookie.findOne: with no match
\* it returns null at once, else it goes on to await the usage update
GetBestCookiesFinds(r, criteria) ==
  /\ r \notin DOMAIN bestCalls
  /\ IF BestCookies(Cookie, criteria, now) = {}
       THEN bestCalls' = bestCalls
       ELSE \E c \in BestCookies(Cookie, criteria, now) :
              /\ Cookie[c].usageCount + PendingUses(c) < MaxUses
              /\ bestCalls' = With(bestCalls, r,
                     [cookieId |-> c, cookie |-> Cookie[c], readAt |-> now,
                      excludeUsedRecently |-> criteria.excludeUsedRecently])
  /\ UNCHANGED <<now, Cookie, apiCalls, qualityCalls, poolVars, trackerVars, putResult, rotatorVars, backoffDelays, refreshDue, sessionVars>>

\* getBestCookies resumes with Cookie.findByIdAndUpdate done and returns the
\* document it found
GetBestCookiesUpdates(r) ==
  /\ r \in DOMAIN bestCalls
  /\ Cookie' = RecordUsage(Cookie, bestCalls[r].cookieId, now)
  /\ bestCalls' = Without(bestCalls, r)
  /\ UNCHANGED <<now, apiCalls, qualityCalls, poolVars, trackerVars, putResult, rotatorVars, backoffDelays, refreshDue, sessionVars>>

\* ---- the getCookies controller --------------------------------------------

\* the query CookieService.getCookies builds at t from its options
MatchesGetCookies(doc, options, t) ==
  /\ (options.status # "" => doc.status = options.status)
  /\ doc.isValid = options.isValid
  /\ (options.domain # NoDomain => doc.domain = options.domain)
  /\ (options.minQualityScore > 0 => doc.score >= options.minQualityScore)
  /\ doc.expiresAt > t

\* the documents that may come first in .sort({ 'quality.score': -1 })
GetCookiesFirst(coll, options, t) ==
  LET matching == {c \in DOMAIN coll : MatchesGetCookies(coll[c], options, t)}
  IN {c \in matching : \A d \in matching : coll[d].score <= coll[c].score}

\* the options the controller passes for a request with ?domain=
ControllerOptions(domain) ==
  [status |-> "active", isValid |-> TRUE, domain |-> domain,
   minQualityScore |-> 60]

\* c.name.toLowerCase().includes('tmpt' | 'token' | 'session' | 'auth'), over
\* the names the payloads of the model use
IsTmptName(name) == name \in {"tmpt", "auth_token", "session_id"}

\* the tmpt extraction of the controller: the value of the first cookie with
\* such a name and its expiry in ms, or 24 h from t
ExtractTmpt(cookies, t) ==
  LET hits == {i \in DOMAIN cookies : IsTmptName(cookies[i].name)}
  IN IF hits = {}
       THEN [tmpt |-> NoValue, expiry |-> t + DefaultExpiry]
       ELSE LET tmptCookie == cookies[CHOOSE i \in hits : \A j \in hits : i <= j]
            IN [tmpt |-> tmptCookie.value,
                expiry |-> IF tmptCookie.expires > 0
                             THEN tmptCookie.expires * 1000
                             ELSE t + DefaultExpiry]

\* getCookieCount
GetCookieCount(coll) ==
  Cardinality({c \in DOMAIN coll : coll[c].status = "active"})

\* the controller from the request to the answer of cleanupExpiredCookies
ApiCleansUp(a, domain) ==
  /\ a \notin DOMAIN apiCalls
  /\ Cookie' = CleanupExpiredCookies(Cookie, now)
  /\ apiCalls' = With(apiCalls, a,
         [pc |-> "getCookies", domain |-> domain, cookieId |-> NoCookie,
          readAt |-> now, expiresAt |-> 0, cookies |-> <<>>,
          tmpt |-> NoValue, expiry |-> 0])
  /\ UNCHANGED <<now, bestCalls, qualityCalls, poolVars, trackerVars, putResult, rotatorVars, backoffDelays, refreshDue, sessionVars>>

\* the controller resumes with the answer of CookieService.getCookies:
\* bestCookie = cookies[0]
ApiGetsCookies(a) ==
  /\ a \in DOMAIN apiCalls
  /\ apiCalls[a].pc = "getCookies"
  /\ LET first == GetCookiesFirst(Cookie, ControllerOptions(apiCalls[a].domain), now)
     IN IF first = {}
          THEN apiCalls' = [apiCalls EXCEPT ![a].pc = "getCookieCount",
                                            ![a].readAt = now]
          ELSE \E c \in first :
                 /\ Cookie[c].usageCount + PendingUses(c) < MaxUses
                 /\ apiCalls' = [apiCalls EXCEPT ![a].pc = "getCookieCount",
                                                 ![a].cookieId = c,
                                                 ![a].readAt = now,
                                                 ![a].expiresAt = Cookie[c].expiresAt,
                                                 ![a].cookies = Cookie[c].cookies]
  /\ UNCHANGED <<now, Cookie, bestCalls, qualityCalls, poolVars, trackerVars, putResult, rotatorVars, backoffDelays, refreshDue, sessionVars>>

\* the controller resumes with the answer of getCookieCount: with no cookie it
\* responds "No cookies available", else it awaits updateCookieUsage
ApiCounts(a) ==
  /\ a \in DOMAIN apiCalls
  /\ apiCalls[a].pc = "getCookieCount"
  /\ IF apiCalls[a].cookieId = NoCookie
       THEN apiCalls' = Without(apiCalls, a)
       ELSE LET found == ExtractTmpt(apiCalls[a].cookies, now)
            IN apiCalls' = [apiCalls EXCEPT ![a].pc = "updateCookieUsage",
                                            ![a].tmpt = found.tmpt,
                                            ![a].expiry = found.expiry]
  /\ UNCHANGED <<now, Cookie, bestCalls, qualityCalls, poolVars, trackerVars, putResult, rotatorVars, backoffDelays, refreshDue, sessionVars>>

\* the controller resumes with updateCookieUsage done and responds
ApiUpdatesUsage(a) ==
  /\ a \in DOMAIN apiCalls
  /\ apiCalls[a].pc = "updateCookieUsage"
  /\ Cookie' = RecordUsage(Cookie, apiCalls[a].cookieId, now)
  /\ apiCalls' = Without(apiCalls, a)
  /\ UNCHANGED <<now, bestCalls, qualityCalls, poolVars, trackerVars, putResult, rotatorVars, backoffDelays, refreshDue, sessionVars>>

\* ---- updateCookieQuality ---------------------------------------------------

\* a feedback whose score is not clamped
QualityScoreUnclamped(score, success) ==
  IF success THEN score + SuccessBonus ELSE score - FailurePenalty

\* the new quality.score of updateCookieQuality
QualityScore(score, success) ==
  IF success THEN Min(MaxScore, score + SuccessBonus)
  ELSE Max(0, score - FailurePenalty)

\* a feedback under which a success revives a failed document
ApplyQualityReviving(doc, score, success, t) ==
  LET newScore == QualityScore(score, success)
  IN IF success
       THEN [doc EXCEPT !.score = newScore, !.lastSuccessful = t,
                        !.status = "active", !.isValid = TRUE,
                        !.updatedAt = t]
       ELSE IF newScore < FailedScoreThreshold
         THEN [doc EXCEPT !.score = newScore, !.status = "failed",
                          !.isValid = FALSE, !.updatedAt = t]
         ELSE [doc EXCEPT !.score = newScore, !.updatedAt = t]

\* the $set of updateCookieQuality computed from the score it read
ApplyQuality(doc, score, success, t) ==
  LET newScore == QualityScore(score, success)
  IN IF success
       THEN [doc EXCEPT !.score = newScore, !.lastSuccessful = t,
                        !.updatedAt = t]
       ELSE IF newScore < FailedScoreThreshold
         THEN [doc EXCEPT !.score = newScore, !.status = "failed",
                          !.isValid = FALSE, !.updatedAt = t]
         ELSE [doc EXCEPT !.score = newScore, !.updatedAt = t]

\* updateCookieQuality from its call to the answer of Cookie.findOne; with no
\* such cookie it throws 'Cookie not found'
UpdateCookieQualityReads(f, c, success) ==
  /\ f \notin DOMAIN qualityCalls
  /\ IF c \in DOMAIN Cookie
       THEN qualityCalls' = With(qualityCalls, f,
                [cookieId |-> c, success |-> success, score |-> Cookie[c].score])
       ELSE qualityCalls' = qualityCalls
  /\ UNCHANGED <<now, Cookie, bestCalls, apiCalls, poolVars, trackerVars, putResult, rotatorVars, backoffDelays, refreshDue, sessionVars>>

\* updateCookieQuality resumes with Cookie.findByIdAndUpdate done
UpdateCookieQualityWrites(f) ==
  /\ f \in DOMAIN qualityCalls
  /\ LET call == qualityCalls[f]
     IN Cookie' = IF call.cookieId \in DOMAIN Cookie
                    THEN [Cookie EXCEPT ![call.cookieId] =
                            ApplyQuality(@, call.score, call.success, now)]
                    ELSE Cookie
  /\ qualityCalls' = Without(qualityCalls, f)
  /\ UNCHANGED <<now, bestCalls, apiCalls, poolVars, trackerVars, putResult, rotatorVars, backoffDelays, refreshDue, sessionVars>>

\* ---- writes and the clock --------------------------------------------------

\* a caller stores a payload; the uuid drawn is not one a call in flight holds
PutCookies(c, payload, domain, tags) ==
  /\ c \notin HeldCookies
  /\ Cookie' = StoreCookies(Cookie, c, payload, domain, tags, now)
  /\ UNCHANGED <<now, callVars, poolVars, trackerVars, putResult, rotatorVars, backoffDelays, refreshDue, sessionVars>>

\* POST /cleanup: CookieService.cleanupExpiredCookies
RunCleanupExpiredCookies ==
  /\ Cookie' = CleanupExpiredCookies(Cookie, now)
  /\ UNCHANGED <<now, callVars, poolVars, trackerVars, putResult, rotatorVars, backoffDelays, refreshDue, sessionVars>>

\* CookieService.cleanup
RunCleanup ==
  /\ Cookie' = CleanupCookies(Cookie, now)
  /\ UNCHANGED <<now, callVars, poolVars, trackerVars, putResult, rotatorVars, backoffDelays, refreshDue, sessionVars>>

\* five minutes pass
AdvanceClock ==
  /\ now < MaxClockSteps * FiveMinutes
  /\ now' = now + FiveMinutes
  /\ UNCHANGED <<Cookie, callVars, poolVars, trackerVars, putResult, rotatorVars, backoffDelays, refreshDue, sessionVars>>

(***************************************************************************)
(* CookieRefreshTracker: the attempt tracker.  Three variants exist: the   *)
(* enhanced class and the first class of cookieRefreshService.js, and the  *)
(* class of cookieRefreshTracker.js.  All write the same collection.       *)
(***************************************************************************)
RefreshIds == 1..MaxRefreshes
Terminal == {"success", "failed"}

\* 2^n
RECURSIVE Pow2(_)
Pow2(n) == IF n <= 0 THEN 1 ELSE 2 * Pow2(n - 1)

\* a calculateBackoffDelay that forgets the clamp to maxDelay
CalculateBackoffDelayUnclamped(consecutiveFailures) ==
  FiveMinutes * Pow2(Min(consecutiveFailures - 1, 4))

\* calculateBackoffDelay
CalculateBackoffDelay(consecutiveFailures) ==
  LET baseDelay == FiveMinutes
      maxDelay == OneHour
      exponentialDelay == baseDelay * Pow2(Min(consecutiveFailures - 1, 4))
  IN Min(exponentialDelay, maxDelay)

\* one call of calculateBackoffDelay, its result kept by argument
CalculatesBackoff(n) ==
  /\ n \notin DOMAIN backoffDelays
  /\ backoffDelays' = With(backoffDelays, n, CalculateBackoffDelay(n))
  /\ UNCHANGED <<storeVars, poolVars, trackerVars, putResult, rotatorVars,
                 refreshDue, sessionVars>>

\* the record CookieRefresh.create builds in startRefresh
NewRefreshRecord(t) ==
  [ status |-> "in_progress", startTime |-> t, completionTime |-> NoDate,
    nextScheduledRefresh |-> NoDate, errorMessage |-> "", cookieCount |-> 0,
    retryCount |-> 0, consecutiveFailures |-> 0 ]

\* the update document of markSuccess applied to a record
SuccessUpdate(rec, completionTime, cookieCount, retryCount) ==
  [rec EXCEPT !.status = "success",
              !.completionTime = completionTime,
              !.nextScheduledRefresh = completionTime + ThirtyMinutes,
              !.cookieCount = cookieCount,
              !.retryCount = retryCount]

\* the update document of markFailed applied to a record
FailedUpdate(rec, completionTime, delay, errorMessage, retryCount) ==
  [rec EXCEPT !.status = "failed",
              !.completionTime = completionTime,
              !.nextScheduledRefresh = completionTime + delay,
              !.errorMessage = errorMessage,
              !.retryCount = retryCount]

\* the update document a suspended invocation carries
CallUpdate(rec, call) ==
  IF call.op = "markSuccess"
    THEN SuccessUpdate(rec, call.completionTime, call.cookieCount, call.retryCount)
    ELSE [FailedUpdate(rec, call.completionTime, call.delay, call.errorMessage,
                       call.retryCount)
            EXCEPT !.consecutiveFailures =
                     IF call.impl = "enhanced" THEN call.consecutiveFailures
                     ELSE @]

\* an enhanced findOneAndUpdate that forgets the status filter
ConditionalUpdateUnguarded(coll, refreshId, newRec) ==
  IF refreshId \in DOMAIN coll
    THEN [coll EXCEPT ![refreshId] = newRec]
    ELSE coll

\* findOneAndUpdate({ refreshId, status: 'in_progress' }, ...)
ConditionalUpdate(coll, refreshId, newRec) ==
  IF refreshId \in DOMAIN coll /\ coll[refreshId].status = "in_progress"
    THEN [coll EXCEPT ![refreshId] = newRec]
    ELSE coll

\* findOneAndUpdate({ refreshId }, ...)
UnconditionalUpdate(coll, refreshId, newRec) ==
  IF refreshId \in DOMAIN coll
    THEN [coll EXCEPT ![refreshId] = newRec]
    ELSE coll

\* startRefresh (the same in the three variants)
StartRefresh(id) ==
  /\ id \notin DOMAIN CookieRefresh
  /\ id \notin {markCalls[k].refreshId : k \in DOMAIN markCalls}
  /\ CookieRefresh' = With(CookieRefresh, id, NewRefreshRecord(now))
  /\ UNCHANGED <<storeVars, poolVars, markCalls, markOutcome, putResult, rotatorVars, backoffDelays, refreshDue, sessionVars>>

\* enhanced markSuccess: one conditional findOneAndUpdate; null makes it throw
EnhancedMarkSuccess(id, cookieCount, retryCount) ==
  /\ IF id \in DOMAIN CookieRefresh /\ CookieRefresh[id].status = "in_progress"
       THEN /\ CookieRefresh' = ConditionalUpdate(CookieRefresh, id,
                  SuccessUpdate(CookieRefresh[id], now, cookieCount, retryCount))
            /\ markOutcome' = "ok"
       ELSE /\ CookieRefresh' = CookieRefresh
            /\ markOutcome' = "Refresh record not found or already completed"
  /\ UNCHANGED <<storeVars, poolVars, markCalls, putResult, rotatorVars, backoffDelays, refreshDue, sessionVars>>

\* enhanced markFailed up to the answer of findOne: throws when there is no
\* record, else computes consecutiveFailures and the backoff from what it read
EnhancedMarkFailedFinds(k, id, errorMessage, retryCount) ==
  /\ k \notin DOMAIN markCalls
  /\ IF id \in DOMAIN CookieRefresh
       THEN /\ markCalls' = With(markCalls, k,
                  [impl |-> "enhanced", op |-> "markFailed", refreshId |-> id,
                   completionTime |-> now,
                   consecutiveFailures |-> CookieRefresh[id].consecutiveFailures + 1,
                   delay |-> CalculateBackoffDelay(
                               CookieRefresh[id].consecutiveFailures + 1),
                   errorMessage |-> errorMessage, cookieCount |-> 0,
                   retryCount |-> retryCount])
            /\ markOutcome' = markOutcome
       ELSE /\ markCalls' = markCalls
            /\ markOutcome' = "Refresh record not found"
  /\ UNCHANGED <<storeVars, poolVars, CookieRefresh, putResult, rotatorVars, backoffDelays, refreshDue, sessionVars>>

\* enhanced markFailed resumes with the answer of the conditional update
EnhancedMarkFailedUpdates(k) ==
  /\ k \in DOMAIN markCalls
  /\ markCalls[k].impl = "enhanced"
  /\ LET id == markCalls[k].refreshId
     IN IF id \in DOMAIN CookieRefresh /\ CookieRefresh[id].status = "in_progress"
          THEN /\ CookieRefresh' = ConditionalUpdate(CookieRefresh, id,
                     CallUpdate(CookieRefresh[id], markCalls[k]))
               /\ markOutcome' = "ok"
          ELSE /\ CookieRefresh' = CookieRefresh
               /\ markOutcome' = "Refresh record not found or already completed"
  /\ markCalls' = Without(markCalls, k)
  /\ UNCHANGED <<storeVars, poolVars, putResult, rotatorVars, backoffDelays, refreshDue, sessionVars>>

\* markSuccess / markFailed of the first class of cookieRefreshService.js up
\* to the answer of findOne: throws when there is no record
LegacyMarkFinds(k, op, id, cookieCount, errorMessage, retryCount) ==
  /\ k \notin DOMAIN markCalls
  /\ IF id \in DOMAIN CookieRefresh
       THEN /\ markCalls' = With(markCalls, k,
                  [impl |-> "legacy", op |-> op, refreshId |-> id,
                   completionTime |-> now, consecutiveFailures |-> 0,
                   delay |-> FiveMinutes,
                   errorMessage |-> errorMessage, cookieCount |-> cookieCount,
                   retryCount |-> retryCount])
            /\ markOutcome' = markOutcome
       ELSE /\ markCalls' = markCalls
            /\ markOutcome' = "Refresh record not found"
  /\ UNCHANGED <<storeVars, poolVars, CookieRefresh, putResult, rotatorVars, backoffDelays, refreshDue, sessionVars>>

\* the same invocation resumes with findOneAndUpdate({ refreshId }) done
LegacyMarkUpdates(k) ==
  /\ k \in DOMAIN markCalls
  /\ markCalls[k].impl = "legacy"
  /\ LET id == markCalls[k].refreshId
     IN CookieRefresh' =
          IF id \in DOMAIN CookieRefresh
            THEN UnconditionalUpdate(CookieRefresh, id,
                   CallUpdate(CookieRefresh[id], markCalls[k]))
            ELSE CookieRefresh
  /\ markOutcome' = "ok"
  /\ markCalls' = Without(markCalls, k)
  /\ UNCHANGED <<storeVars, poolVars, putResult, rotatorVars, backoffDelays, refreshDue, sessionVars>>

\* markSuccess / markFailed of cookieRefreshTracker.js up to the answer of
\* findOne: a missing record only leaves the duration null
TrackerMarkFinds(k, op, id, cookieCount, errorMessage, retryCount) ==
  /\ k \notin DOMAIN markCalls
  /\ markCalls' = With(markCalls, k,
         [impl |-> "tracker", op |-> op, refreshId |-> id,
          completionTime |-> now, consecutiveFailures |-> 0,
          delay |-> FiveMinutes,
          errorMessage |-> errorMessage, cookieCount |-> cookieCount,
          retryCount |-> retryCount])
  /\ UNCHANGED <<storeVars, poolVars, CookieRefresh, markOutcome, putResult, rotatorVars, backoffDelays, refreshDue, sessionVars>>

\* the same invocation resumes with findOneAndUpdate({ refreshId }) done
TrackerMarkUpdates(k) ==
  /\ k \in DOMAIN markCalls
  /\ markCalls[k].impl = "tracker"
  /\ LET id == markCalls[k].refreshId
     IN CookieRefresh' =
          IF id \in DOMAIN CookieRefresh
            THEN UnconditionalUpdate(CookieRefresh, id,
                   CallUpdate(CookieRefresh[id], markCalls[k]))
            ELSE CookieRefresh
  /\ markOutcome' = "ok"
  /\ markCalls' = Without(markCalls, k)
  /\ UNCHANGED <<storeVars, poolVars, putResult, rotatorVars, backoffDelays, refreshDue, sessionVars>>

\* resetStuckOperations: one updateMany
ResetStuckOperations(maxDurationMs) ==
  /\ LET cutoffTime == now - maxDurationMs
     IN CookieRefresh' =
          [id \in DOMAIN CookieRefresh |->
             IF /\ CookieRefresh[id].status = "in_progress"
                /\ CookieRefresh[id].startTime < cutoffTime
               THEN [CookieRefresh[id] EXCEPT
                       !.status = "failed",
                       !.completionTime = now,
                       !.errorMessage = "Operation timed out and was reset automatically",
                       !.nextScheduledRefresh = now + FiveMinutes]
               ELSE CookieRefresh[id]]
  /\ UNCHANGED <<storeVars, poolVars, markCalls, markOutcome, putResult, rotatorVars, backoffDelays, refreshDue, sessionVars>>

\* the records deleteMany leaves when cleanup filters on startTime and on
\* status in ['success', 'failed'] (both classes of cookieRefreshService.js)
CleanupTerminalRecords(coll, maxAge, t) ==
  LET cutoffDate == t - maxAge
      deleted == {id \in DOMAIN coll : /\ coll[id].startTime < cutoffDate
                                        /\ coll[id].status \in Terminal}
  IN [id \in DOMAIN coll \ deleted |-> coll[id]]

\* the records deleteMany leaves when cleanup filters on startTime alone
\* (cookieRefreshTracker.js)
CleanupOldRecords(coll, maxAge, t) ==
  LET cutoffDate == t - maxAge
      deleted == {id \in DOMAIN coll : coll[id].startTime < cutoffDate}
  IN [id \in DOMAIN coll \ deleted |-> coll[id]]

\* cleanup(maxAge) of cookieRefreshService.js
EnhancedCleanup(maxAge) ==
  /\ CookieRefresh' = CleanupTerminalRecords(CookieRefresh, maxAge, now)
  /\ UNCHANGED <<storeVars, poolVars, markCalls, markOutcome, putResult, rotatorVars, backoffDelays, refreshDue, sessionVars>>

\* cleanup(maxAge) of cookieRefreshTracker.js
TrackerCleanup(maxAge) ==
  /\ CookieRefresh' = CleanupOldRecords(CookieRefresh, maxAge, now)
  /\ UNCHANGED <<storeVars, poolVars, markCalls, markOutcome, putResult, rotatorVars, backoffDelays, refreshDue, sessionVars>>

\* findOne({ status: 'success' }).sort({ completionTime: -1 }): the records
\* the query may return
LastSuccessful(coll) ==
  LET successful == {id \in DOMAIN coll : coll[id].status = "success"}
  IN {id \in successful :
        \A other \in successful :
          coll[other].completionTime <= coll[id].completionTime}

\* isRefreshDue: what it may return at t
IsRefreshDueAnswers(coll, t) ==
  IF LastSuccessful(coll) = {}
    THEN {"due"}
    ELSE {IF coll[id].nextScheduledRefresh <= t THEN "due" ELSE "notDue" :
            id \in LastSuccessful(coll)}

\* one call of isRefreshDue
IsRefreshDue ==
  /\ refreshDue' \in IsRefreshDueAnswers(CookieRefresh, now)
  /\ UNCHANGED <<storeVars, poolVars, trackerVars, putResult, rotatorVars,
                 backoffDelays, sessionVars>>

\* a quarter of an hour passes
AdvanceQuarterHour ==
  /\ now < MaxQuarterHours * FifteenMinutes
  /\ now' = now + FifteenMinutes
  /\ UNCHANGED <<Cookie, callVars, poolVars, trackerVars, putResult,
                 rotatorVars, backoffDelays, refreshDue, sessionVars>>

(***************************************************************************)
(* CookiePoolManager: the pool scheduler.                                  *)
(***************************************************************************)
TickIds == 1..MaxTicks
\* every tick in flight adds at most one session beyond the cap it observed
SessionIds == 1..(MaxConcurrentBrowsers + MaxTicks - 1)

\* scheduleNextVisit: this.visitTimer = setTimeout(...)
ScheduleNextVisit ==
  LET t == FreshId(timeouts)
  IN /\ timeouts' = timeouts \cup {t}
     /\ visitTimer' = t

\* a tick whose end never schedules the next one
FinishTickIdles(t) ==
  /\ ticks' = Without(ticks, t)
  /\ UNCHANGED <<timeouts, visitTimer>>

\* what follows the body of processVisits: the .finally of the timer callback
\* reschedules while running; the initial run of start() has no such handler
FinishTick(t) ==
  /\ ticks' = Without(ticks, t)
  /\ IF ticks[t].origin = "timer" /\ isRunning
       THEN ScheduleNextVisit
       ELSE UNCHANGED <<timeouts, visitTimer>>

\* processVisits from its call to its first await (line 533-539)
BeginProcessVisits(origin, tks) ==
  With(tks, FreshId(DOMAIN tks), [pc |-> "poolQuery", origin |-> origin])

\* start()
Start ==
  /\ ~isRunning
  /\ Cardinality(DOMAIN intervals) + 2 <= MaxIntervals
  /\ Cardinality(DOMAIN ticks) < MaxTicks
  /\ isRunning' = TRUE
  /\ LET i1 == FreshId(DOMAIN intervals)
         withFirst == With(intervals, i1, "performCleanup")
         i2 == FreshId(DOMAIN withFirst)
     IN /\ intervals' = With(withFirst, i2, "cleanup")
        /\ cleanupTimer' = i2
  /\ ScheduleNextVisit
  /\ ticks' = BeginProcessVisits("start", ticks)
  /\ UNCHANGED <<sessions, activeBrowsers, storeVars, trackerVars, putResult, rotatorVars, backoffDelays, refreshDue, sessionVars>>

\* a stop() that aborts the sessions in flight
StopAbortingSessions ==
  /\ isRunning
  /\ isRunning' = FALSE
  /\ timeouts' = timeouts \ {visitTimer}
  /\ visitTimer' = NoTimer
  /\ intervals' = Without(intervals, cleanupTimer)
  /\ cleanupTimer' = NoTimer
  /\ activeBrowsers' = {}
  /\ UNCHANGED <<ticks, sessions, storeVars, trackerVars, putResult, rotatorVars, backoffDelays, refreshDue, sessionVars>>

\* stop()
Stop ==
  /\ isRunning
  /\ isRunning' = FALSE
  /\ timeouts' = timeouts \ {visitTimer}
  /\ visitTimer' = NoTimer
  /\ intervals' = Without(intervals, cleanupTimer)
  /\ cleanupTimer' = NoTimer
  /\ UNCHANGED <<ticks, sessions, activeBrowsers, storeVars, trackerVars, putResult, rotatorVars, backoffDelays, refreshDue, sessionVars>>

\* a setTimeout of scheduleNextVisit fires: processVisits().finally(...)
VisitTimerFires(t) ==
  /\ t \in timeouts
  /\ IF isRunning
       THEN /\ Cardinality(DOMAIN ticks) < MaxTicks
            /\ ticks' = BeginProcessVisits("timer", ticks)
       ELSE /\ ticks' = ticks
  /\ timeouts' = timeouts \ {t}
  /\ UNCHANGED <<isRunning, visitTimer, cleanupTimer, intervals, sessions,
                 activeBrowsers, storeVars, trackerVars, putResult, rotatorVars, backoffDelays, refreshDue, sessionVars>>

\* a setInterval of start() fires: performCleanup() or cleanup()
CleanupTimerFires(i) ==
  /\ i \in DOMAIN intervals
  /\ IF intervals[i] = "performCleanup"
       THEN /\ Cookie' = CleanupExpiredCookies(Cookie, now)
       ELSE IF isRunning
         THEN /\ Cookie' = CleanupCookies(Cookie, now)
         ELSE /\ Cookie' = Cookie
  /\ UNCHANGED <<now, callVars, isRunning, visitTimer, cleanupTimer,
                 timeouts, intervals, ticks, sessions, activeBrowsers, trackerVars, putResult, rotatorVars, backoffDelays, refreshDue, sessionVars>>

\* the options processVisits passes to getCookies for the pool size
PoolQueryOptions ==
  [status |-> "active", isValid |-> TRUE, domain |-> NoDomain,
   minQualityScore |-> 0]

\* currentCookies.length: the query is limited to maxCookiePool documents
CurrentCookies(coll, t) ==
  Min(Cardinality({c \in DOMAIN coll :
                     MatchesGetCookies(coll[c], PoolQueryOptions, t)}),
      MaxCookiePool)

\* getExpiringCookies: the active documents that expire within the next hour
ExpiringCookies(coll, t) ==
  {c \in DOMAIN coll : /\ MatchesGetCookies(coll[c], PoolQueryOptions, t)
                        /\ coll[c].expiresAt <= t + OneHour}

\* a pool-size decision that idles once the pool is at maxCookiePool
ShouldStartBrowserIdlingAtMax(currentCookies, needsRefresh) ==
  IF currentCookies < MinCookiePool THEN TRUE
  ELSE IF needsRefresh THEN TRUE
  ELSE IF currentCookies >= MaxCookiePool THEN FALSE
  ELSE TRUE

\* shouldStartBrowser of processVisits, branch by branch
ShouldStartBrowser(currentCookies, needsRefresh) ==
  IF currentCookies < MinCookiePool THEN TRUE
  ELSE IF needsRefresh THEN TRUE
  ELSE IF currentCookies >= MaxCookiePool THEN TRUE
  ELSE TRUE

\* processVisits resumes with the pool queries answered (lines 539-577)
ProcessVisitsDecides(t, queryFails) ==
  /\ t \in DOMAIN ticks
  /\ ticks[t].pc = "poolQuery"
  /\ IF /\ ~queryFails
        /\ Cardinality(activeBrowsers) < MaxConcurrentBrowsers
        /\ ShouldStartBrowser(CurrentCookies(Cookie, now),
                              ExpiringCookies(Cookie, now) # {})
       THEN /\ ticks' = [ticks EXCEPT ![t].pc = "getRandomEvent"]
            /\ UNCHANGED <<timeouts, visitTimer, trackerVars, putResult, rotatorVars, backoffDelays, refreshDue, sessionVars>>
       ELSE FinishTick(t)
  /\ UNCHANGED <<isRunning, cleanupTimer, intervals, sessions,
                 activeBrowsers, storeVars, trackerVars, putResult, rotatorVars, backoffDelays, refreshDue, sessionVars>>

\* startNewBrowserSession resumes with the answer of getRandomEvent
StartNewBrowserSession(t, haveEvent) ==
  /\ t \in DOMAIN ticks
  /\ ticks[t].pc = "getRandomEvent"
  /\ IF haveEvent
       THEN LET sessionId == FreshId(DOMAIN sessions \cup activeBrowsers)
            IN /\ activeBrowsers' = activeBrowsers \cup {sessionId}
               /\ sessions' = With(sessions, sessionId, 0)
       ELSE /\ UNCHANGED <<activeBrowsers, sessions, trackerVars, putResult, rotatorVars, backoffDelays, refreshDue, sessionVars>>
  /\ FinishTick(t)
  /\ UNCHANGED <<isRunning, cleanupTimer, intervals, storeVars, trackerVars, putResult, rotatorVars, backoffDelays, refreshDue, sessionVars>>

\* one iteration of the loop of processSingleEvent succeeds: the cookies are
\* stored, the promise fulfils, and the .finally frees the slot
SessionSucceeds(s, cookieId, payload) ==
  /\ s \in DOMAIN sessions
  /\ payload # <<>>
  /\ Cookie' = StoreCookies(Cookie, cookieId, payload, DefaultDomain,
                          {"auto-generated", "pool-managed"}, now)
  /\ sessions' = Without(sessions, s)
  /\ activeBrowsers' = activeBrowsers \ {s}
  /\ UNCHANGED <<now, callVars, isRunning, visitTimer, cleanupTimer,
                 timeouts, intervals, ticks, trackerVars, putResult, rotatorVars, backoffDelays, refreshDue, sessionVars>>

\* a session whose promise settles without the .finally freeing its slot
SessionFailsKeepingSlot(s) ==
  /\ s \in DOMAIN sessions
  /\ LET retries == sessions[s] + 1
     IN IF retries > MaxRetries
          THEN /\ sessions' = Without(sessions, s)
               /\ activeBrowsers' = activeBrowsers
          ELSE /\ sessions' = [sessions EXCEPT ![s] = retries]
               /\ activeBrowsers' = activeBrowsers
  /\ UNCHANGED <<isRunning, visitTimer, cleanupTimer, timeouts, intervals,
                 ticks, storeVars, trackerVars, putResult, rotatorVars, backoffDelays, refreshDue, sessionVars>>

\* one iteration fails: retries++, and past maxRetries the promise settles
\* and the .finally frees the slot
SessionFails(s) ==
  /\ s \in DOMAIN sessions
  /\ LET retries == sessions[s] + 1
     IN IF retries > MaxRetries
          THEN /\ sessions' = Without(sessions, s)
               /\ activeBrowsers' = activeBrowsers \ {s}
          ELSE /\ sessions' = [sessions EXCEPT ![s] = retries]
               /\ activeBrowsers' = activeBrowsers
  /\ UNCHANGED <<isRunning, visitTimer, cleanupTimer, timeouts, intervals,
                 ticks, storeVars, trackerVars, putResult, rotatorVars, backoffDelays, refreshDue, sessionVars>>

(***************************************************************************)
(* The proxy rotator: getRandomProxy, markProxyAsFailed, getFreshProxy.    *)
(* A proxy is modelled by its proxy string.                                *)
(***************************************************************************)
ProxyNames == {"p1", "p2"}
Range(list) == {list[i] : i \in DOMAIN list}

\* a getRandomProxy that never filters the failed proxies out
AvailableProxiesUnfiltered(list, failed, avoidFailedProxies) == list

\* availableProxies of getRandomProxy at the time of the draw
AvailableProxies(list, failed, avoidFailedProxies) ==
  LET filtered == SelectSeq(list, LAMBDA p : p \notin failed)
  IN IF avoidFailedProxies /\ failed # {} /\ filtered # <<>>
       THEN filtered
       ELSE list

\* a getRandomProxy that never clears the failed set
FailedAfterPickKept(list, failed, avoidFailedProxies) == failed

\* failedProxies after getRandomProxy: cleared when the filter leaves nothing
FailedAfterPick(list, failed, avoidFailedProxies) ==
  LET filtered == SelectSeq(list, LAMBDA p : p \notin failed)
  IN IF list # <<>> /\ avoidFailedProxies /\ failed # {} /\ filtered = <<>>
       THEN {}
       ELSE failed

\* what one getRandomProxy call can return, with the failed set it leaves
GetRandomProxyOutcomes(list, failed, avoidFailedProxies) ==
  IF list = <<>>
    THEN {[proxy |-> NoProxy, failed |-> failed]}
    ELSE LET availableProxies == AvailableProxies(list, failed, avoidFailedProxies)
         IN {[proxy |-> availableProxies[randomIndex],
              failed |-> FailedAfterPick(list, failed, avoidFailedProxies)] :
               randomIndex \in DOMAIN availableProxies}

\* the while loop of getFreshProxy from a given number of attempts on, then
\* the fallback getRandomProxy(false)
RECURSIVE FreshFrom(_, _, _, _)
FreshFrom(list, failed, currentProxy, attempts) ==
  IF attempts < MaxFreshAttempts
    THEN UNION { IF currentProxy = NoProxy \/ o.proxy # currentProxy
                   THEN {[proxy |-> o.proxy, failed |-> o.failed,
                          picks |-> attempts + 1]}
                   ELSE FreshFrom(list, o.failed, currentProxy, attempts + 1) :
                 o \in GetRandomProxyOutcomes(list, failed, TRUE) }
    ELSE {[proxy |-> o.proxy, failed |-> o.failed, picks |-> attempts + 1] :
            o \in GetRandomProxyOutcomes(list, failed, FALSE)}

\* a getFreshProxy that returns its first draw whatever it is
GetFreshProxyFirstDraw(list, failed, currentProxy) ==
  {[proxy |-> o.proxy, failed |-> o.failed, picks |-> 1] :
     o \in GetRandomProxyOutcomes(list, failed, TRUE)}

\* what one getFreshProxy call can return, with the failed set it leaves and
\* the number of getRandomProxy calls it made
GetFreshProxyOutcomes(list, failed, currentProxy) ==
  IF Len(list) <= 1
    THEN {[proxy |-> o.proxy, failed |-> o.failed, picks |-> 1] :
            o \in GetRandomProxyOutcomes(list, failed, TRUE)}
    ELSE FreshFrom(list, failed, currentProxy, 0)

\* getRandomProxy called directly
GetRandomProxy(avoidFailedProxies) ==
  /\ \E o \in GetRandomProxyOutcomes(proxies, failedProxies, avoidFailedProxies) :
       /\ failedProxies' = o.failed
       /\ proxyResult' = [op |-> "getRandomProxy", avoid |-> avoidFailedProxies,
                          current |-> NoProxy, proxy |-> o.proxy, picks |-> 1,
                          call |-> 1 - proxyResult.call]
  /\ UNCHANGED <<storeVars, poolVars, trackerVars, putResult, proxies,
                 failedTimers, refreshCalls, browserLaunch, backoffDelays, refreshDue, sessionVars>>

\* getFreshProxy called directly
GetFreshProxy(currentProxy) ==
  /\ \E o \in GetFreshProxyOutcomes(proxies, failedProxies, currentProxy) :
       /\ failedProxies' = o.failed
       /\ proxyResult' = [op |-> "getFreshProxy", avoid |-> TRUE,
                          current |-> currentProxy, proxy |-> o.proxy,
                          picks |-> o.picks, call |-> 1 - proxyResult.call]
  /\ UNCHANGED <<storeVars, poolVars, trackerVars, putResult, proxies,
                 failedTimers, refreshCalls, browserLaunch, backoffDelays, refreshDue, sessionVars>>

\* markProxyAsFailed: adds the string and arms a timeout of its own
MarkProxyAsFailed(proxyString) ==
  /\ proxyString # NoProxy
  /\ failedProxies' = failedProxies \cup {proxyString}
  /\ failedTimers' = failedTimers \cup
                       {[proxy |-> proxyString, at |-> now + TenMinutes]}
  /\ UNCHANGED <<storeVars, poolVars, trackerVars, putResult, proxies,
                 proxyResult, refreshCalls, browserLaunch, backoffDelays, refreshDue, sessionVars>>

\* a timeout of markProxyAsFailed fires: failedProxies.delete(proxyString)
FailedTimerFires(timer) ==
  /\ timer \in failedTimers
  /\ now >= timer.at
  /\ failedProxies' = failedProxies \ {timer.proxy}
  /\ failedTimers' = failedTimers \ {timer}
  /\ UNCHANGED <<storeVars, poolVars, trackerVars, putResult, proxies,
                 proxyResult, refreshCalls, browserLaunch, backoffDelays, refreshDue, sessionVars>>

\* ---- refreshCookies(url), no proxy argument --------------------------------

\* the proxy an attempt of refreshCookies chooses: getRandomProxy() on the
\* first attempt, getFreshProxy(undefined) on a retry
AttemptProxyOutcomes(list, failed, retryCount) ==
  IF retryCount = 0
    THEN {[proxy |-> o.proxy, failed |-> o.failed, picks |-> 1] :
            o \in GetRandomProxyOutcomes(list, failed, TRUE)}
    ELSE GetFreshProxyOutcomes(list, failed, NoProxy)

\* the proxy initBrowser(proxy) works with: without one it draws one itself
InitBrowserProxyOutcomes(list, failed, proxy) ==
  IF proxy = NoProxy
    THEN GetRandomProxyOutcomes(list, failed, TRUE)
    ELSE {[proxy |-> proxy, failed |-> failed]}

\* refreshCookies up to await loadExistingCookiesFromDB of its first attempt
RefreshCookiesBegins(r) ==
  /\ r \notin DOMAIN refreshCalls
  /\ \E o \in AttemptProxyOutcomes(proxies, failedProxies, 0) :
       /\ failedProxies' = o.failed
       /\ refreshCalls' = With(refreshCalls, r,
              [pc |-> "initBrowser", retryCount |-> 0, initAttempts |-> 0,
               currentProxy |-> o.proxy, picks |-> o.picks])
  /\ UNCHANGED <<storeVars, poolVars, trackerVars, putResult, proxies,
                 failedTimers, proxyResult, browserLaunch, backoffDelays, refreshDue, sessionVars>>

\* initBrowser(currentProxy) launches the browser with the proxy it has, or
\* with none
RefreshCookiesLaunches(r) ==
  /\ r \in DOMAIN refreshCalls
  /\ refreshCalls[r].pc = "initBrowser"
  /\ \E o \in InitBrowserProxyOutcomes(proxies, failedProxies,
                                       refreshCalls[r].currentProxy) :
       /\ failedProxies' = o.failed
       /\ browserLaunch' = IF o.proxy = NoProxy THEN "direct" ELSE o.proxy
  /\ refreshCalls' = [refreshCalls EXCEPT ![r].pc = "navigating"]
  /\ UNCHANGED <<storeVars, poolVars, trackerVars, putResult, proxies,
                 failedTimers, proxyResult, backoffDelays, refreshDue, sessionVars>>

\* initBrowser throws: on a proxy-related error the attempt marks its
\* currentProxy, if it has one; the third failure ends the attempt
RefreshCookiesInitFails(r, proxyRelated) ==
  /\ r \in DOMAIN refreshCalls
  /\ refreshCalls[r].pc = "initBrowser"
  /\ LET currentProxy == refreshCalls[r].currentProxy
         marks == currentProxy # NoProxy /\ proxyRelated
         initAttempts == refreshCalls[r].initAttempts + 1
     IN /\ \E o \in InitBrowserProxyOutcomes(proxies, failedProxies, currentProxy) :
             failedProxies' = IF marks THEN o.failed \cup {currentProxy}
                              ELSE o.failed
        /\ failedTimers' = IF marks
                             THEN failedTimers \cup
                                    {[proxy |-> currentProxy, at |-> now + TenMinutes]}
                             ELSE failedTimers
        /\ refreshCalls' = [refreshCalls EXCEPT
               ![r].initAttempts = initAttempts,
               ![r].pc = IF initAttempts < MaxInitAttempts THEN "initBrowser"
                         ELSE "failed"]
  /\ UNCHANGED <<storeVars, poolVars, trackerVars, putResult, proxies,
                 proxyResult, browserLaunch, backoffDelays, refreshDue, sessionVars>>

\* the attempt captured cookies: refreshCookies returns
RefreshCookiesReturns(r) ==
  /\ r \in DOMAIN refreshCalls
  /\ refreshCalls[r].pc = "navigating"
  /\ refreshCalls' = Without(refreshCalls, r)
  /\ UNCHANGED <<storeVars, poolVars, trackerVars, putResult, proxies,
                 failedProxies, failedTimers, proxyResult, browserLaunch,
                 backoffDelays, refreshDue, sessionVars>>

\* the attempt failed: retryCount++, throw when the retries are exhausted,
\* else the next attempt chooses its proxy
RefreshCookiesRetries(r) ==
  /\ r \in DOMAIN refreshCalls
  /\ refreshCalls[r].pc \in {"navigating", "failed"}
  /\ LET retryCount == refreshCalls[r].retryCount + 1
     IN IF retryCount > MaxRefreshRetries
          THEN /\ refreshCalls' = Without(refreshCalls, r)
               /\ failedProxies' = failedProxies
          ELSE \E o \in AttemptProxyOutcomes(proxies, failedProxies, retryCount) :
                 /\ failedProxies' = o.failed
                 /\ refreshCalls' = [refreshCalls EXCEPT
                        ![r] = [pc |-> "initBrowser", retryCount |-> retryCount,
                                initAttempts |-> 0, currentProxy |-> o.proxy,
                                picks |-> o.picks]]
  /\ UNCHANGED <<storeVars, poolVars, trackerVars, putResult, proxies,
                 failedTimers, proxyResult, browserLaunch, backoffDelays, refreshDue, sessionVars>>

(***************************************************************************)
(* A session in detail: processSingleEvent and, inside it, refreshCookies  *)
(* with its race between the async executor of refreshPromise and the      *)
(* 2 minute timer.  The pool passes no proxy argument.                     *)
(***************************************************************************)
ExecutorIds == 1..MaxExecutors
FreeExecutors == ExecutorIds \ (DOMAIN executors \cup DOMAIN contexts)

\* the catch of processSingleEvent up to its next await: retries++, then the
\* failure report (past maxRetries) or the wait before the next iteration
IterationFails(s) ==
  /\ sessions' = [sessions EXCEPT ![s] = @ + 1]
  /\ visits' = Without(visits, s)

\* a catch of refreshCookies that never gives up
RefreshCookiesCatchesForever(s) ==
  /\ visits' = [visits EXCEPT ![s] =
                  [pc |-> "retryDelay", retryCount |-> visits[s].retryCount,
                   executor |-> 0]]
  /\ sessions' = sessions

\* the catch of refreshCookies: retryCount++, then throw lastError to
\* processSingleEvent (past MAX_REFRESH_RETRIES) or wait before the retry
RefreshCookiesCatches(s) ==
  LET retryCount == visits[s].retryCount + 1
  IN IF retryCount > MaxRefreshRetries
       THEN IterationFails(s)
       ELSE /\ visits' = [visits EXCEPT ![s] =
                            [pc |-> "retryDelay", retryCount |-> retryCount,
                             executor |-> 0]]
            /\ sessions' = sessions

\* the finally of refreshCookies: page.close() and localContext.close() when
\* the executor has set them by now
ClosedByFinally(e) == Without(contexts, e)

\* an iteration of refreshCookies reaches refreshPromise: the executor starts
\* and arms the timer; the first iteration is the call by processSingleEvent
RefreshPromiseStarts(s) ==
  /\ s \in DOMAIN sessions
  /\ sessions[s] <= MaxRetries
  /\ IF s \in DOMAIN visits THEN visits[s].pc = "retryDelay" ELSE TRUE
  /\ FreeExecutors # {}
  /\ LET e == CHOOSE x \in FreeExecutors : \A y \in FreeExecutors : x <= y
     IN /\ executors' = With(executors, e,
               [session |-> s, pc |-> "initBrowser", abandoned |-> FALSE,
                captureRetry |-> 0])
        /\ visits' = With(visits, s,
               [pc |-> "refreshPromise",
                retryCount |-> IF s \in DOMAIN visits
                                 THEN visits[s].retryCount ELSE 0,
                executor |-> e])
  /\ UNCHANGED <<storeVars, poolVars, trackerVars, putResult, rotatorVars,
                 backoffDelays, refreshDue, contexts, rejections>>

\* initBrowser returns to the executor, abandoned or not: localContext and
\* page are set
InitBrowserReturns(e) ==
  /\ e \in DOMAIN executors
  /\ executors[e].pc = "initBrowser"
  /\ executors' = [executors EXCEPT ![e].pc = "page"]
  /\ contexts' = With(contexts, e, executors[e].session)
  /\ UNCHANGED <<storeVars, poolVars, trackerVars, putResult, rotatorVars,
                 backoffDelays, refreshDue, visits, rejections>>

\* the executor throws (initBrowser failed three times, the navigation or
\* the capture failed): clearTimeout and reject(error), which an abandoned
\* executor does to a promise that is settled already
ExecutorThrows(e) ==
  /\ e \in DOMAIN executors
  /\ executors' = Without(executors, e)
  /\ IF executors[e].abandoned
       THEN UNCHANGED <<sessions, visits, contexts>>
       ELSE /\ RefreshCookiesCatches(executors[e].session)
            /\ contexts' = ClosedByFinally(e)
  /\ UNCHANGED <<storeVars, isRunning, visitTimer, cleanupTimer, timeouts,
                 intervals, ticks, activeBrowsers, trackerVars, putResult,
                 rotatorVars, backoffDelays, refreshDue, rejections>>

\* the executor captures cookies on its page: clearTimeout and resolve, and
\* refreshCookies returns the result through its finally
ExecutorResolves(e) ==
  /\ e \in DOMAIN executors
  /\ executors[e].pc = "page"
  /\ e \in DOMAIN contexts
  /\ executors' = Without(executors, e)
  /\ IF executors[e].abandoned
       THEN UNCHANGED <<visits, contexts>>
       ELSE /\ visits' = [visits EXCEPT ![executors[e].session].pc = "storeCookies",
                                        ![executors[e].session].executor = 0]
            /\ contexts' = ClosedByFinally(e)
  /\ UNCHANGED <<storeVars, poolVars, trackerVars, putResult, rotatorVars,
                 backoffDelays, refreshDue, rejections>>

\* the timer of refreshPromise fires first: reject(timeout); the executor
\* goes on running
TimeoutWinsRace(e) ==
  /\ e \in DOMAIN executors
  /\ ~executors[e].abandoned
  /\ executors' = [executors EXCEPT ![e].abandoned = TRUE]
  /\ RefreshCookiesCatches(executors[e].session)
  /\ contexts' = ClosedByFinally(e)
  /\ UNCHANGED <<storeVars, isRunning, visitTimer, cleanupTimer, timeouts,
                 intervals, ticks, activeBrowsers, trackerVars, putResult,
                 rotatorVars, backoffDelays, refreshDue, rejections>>

StoreOutcomes == {"stored", "storeCookies throws", "updateEventMetrics throws"}

\* processSingleEvent resumes with the result of refreshCookies: storeCookies,
\* then updateEventMetrics(success); it returns, and the .finally frees the
\* slot, or one of the two throws into the catch
ProcessSingleEventStores(s, cookieId, payload, outcome) ==
  /\ s \in DOMAIN visits
  /\ visits[s].pc = "storeCookies"
  /\ Cookie' = IF outcome = "storeCookies throws"
                 THEN Cookie
                 ELSE StoreCookies(Cookie, cookieId, payload, DefaultDomain,
                                   {"auto-generated", "pool-managed"}, now)
  /\ IF outcome = "stored"
       THEN /\ sessions' = Without(sessions, s)
            /\ visits' = Without(visits, s)
            /\ activeBrowsers' = activeBrowsers \ {s}
       ELSE /\ IterationFails(s)
            /\ activeBrowsers' = activeBrowsers
  /\ UNCHANGED <<now, callVars, isRunning, visitTimer, cleanupTimer, timeouts,
                 intervals, ticks, trackerVars, putResult, rotatorVars,
                 backoffDelays, refreshDue, executors, contexts, rejections>>

\* what the promise of processSingleEvent does when the catch awaits
\* updateEventMetrics(failure): a throw leaves the catch, the promise rejects
\* and nothing handles it
RejectsWhenReportThrows(s, reportThrows) ==
  IF reportThrows THEN rejections \cup {s} ELSE rejections

\* processSingleEvent past maxRetries resumes with updateEventMetrics(failure)
\* settled; the .finally frees the slot
ProcessSingleEventReportsFailure(s, reportThrows) ==
  /\ s \in DOMAIN sessions
  /\ sessions[s] > MaxRetries
  /\ sessions' = Without(sessions, s)
  /\ activeBrowsers' = activeBrowsers \ {s}
  /\ rejections' = RejectsWhenReportThrows(s, reportThrows)
  /\ UNCHANGED <<storeVars, isRunning, visitTimer, cleanupTimer, timeouts,
                 intervals, ticks, trackerVars, putResult, rotatorVars,
                 backoffDelays, refreshDue, visits, executors, contexts>>

\* ---- captureCookies inside the executor -----------------------------------

TargetCookie ==
  [name |-> "tmpt", value |-> "v", expires |-> 0 - 1,
   domain |-> ".ticketmaster.com"]
OtherCookie ==
  [name |-> "sid", value |-> "v", expires |-> 0 - 1, domain |-> ".example.com"]
GoogleCookie ==
  [name |-> "NID", value |-> "v", expires |-> 0 - 1, domain |-> ".google.com"]

\* n times the cookie x
RECURSIVE Repeat(_, _)
Repeat(x, n) == IF n = 0 THEN <<>> ELSE <<x>> \o Repeat(x, n - 1)

\* what context.cookies() may hand to captureCookies: nothing, too few
\* ticketmaster.com cookies, too few lines of JSON, enough of both
PageCookies ==
  { Repeat(TargetCookie, t) \o Repeat(OtherCookie, o) \o Repeat(GoogleCookie, g) :
      t \in {0, MinTargetCookies - 1, MinTargetCookies}, o \in {0, 16, 17},
      g \in {0, 1} }

\* the filter on _grecaptcha and google.com
FilterCaptured(raw) ==
  SelectSeq(raw, LAMBDA c : c.name # "_grecaptcha" /\ c.domain # ".google.com")

\* JSON.stringify(cookies, null, 2).split('\n').length
JsonLineCount(cookies) ==
  IF Len(cookies) = 0 THEN 1 ELSE 2 + LinesPerCookie * Len(cookies)

\* the checks of one iteration of captureCookies
CaptureChecks(raw) ==
  LET cookies == FilterCaptured(raw)
      ticketmasterCookies ==
        SelectSeq(cookies, LAMBDA c : c.domain = ".ticketmaster.com")
  IN [ nonEmpty |-> Len(raw) > 0,
       enoughTarget |-> Len(ticketmasterCookies) >= MinTargetCookies,
       plausibleSize |-> JsonLineCount(cookies) >= MinJsonLines ]

\* a captureCookies without the check of the JSON size
CaptureValidatesWithoutSize(raw) ==
  CaptureChecks(raw).nonEmpty /\ CaptureChecks(raw).enoughTarget

\* an iteration of captureCookies returns { cookies, fingerprint }
CaptureValidates(raw) ==
  /\ CaptureChecks(raw).nonEmpty
  /\ CaptureChecks(raw).enoughTarget
  /\ CaptureChecks(raw).plausibleSize

\* one iteration of the loop of captureCookies on the page of a live
\* executor; blocked: the challenge is not resolved or the page throws.  A
\* valid capture resolves refreshPromise and refreshCookies returns it through
\* its finally; the fifth failure returns null, which the executor throws as
\* 'Failed to capture cookies'
CaptureCookiesIterates(e, raw, blocked) ==
  /\ e \in DOMAIN executors
  /\ executors[e].pc = "page"
  /\ ~executors[e].abandoned
  /\ LET s == executors[e].session
     IN IF ~blocked /\ CaptureValidates(raw)
          THEN /\ executors' = Without(executors, e)
               /\ visits' = [visits EXCEPT ![s] =
                     [pc |-> "storeCookies", retryCount |-> visits[s].retryCount,
                      executor |-> 0, cookies |-> FilterCaptured(raw)]]
               /\ sessions' = sessions
               /\ contexts' = ClosedByFinally(e)
          ELSE IF executors[e].captureRetry = MaxCaptureRetries - 1
            THEN /\ executors' = Without(executors, e)
                 /\ RefreshCookiesCatches(s)
                 /\ contexts' = ClosedByFinally(e)
            ELSE /\ executors' = [executors EXCEPT ![e].captureRetry = @ + 1]
                 /\ UNCHANGED <<visits, sessions, contexts>>
  /\ UNCHANGED <<storeVars, isRunning, visitTimer, cleanupTimer, timeouts,
                 intervals, ticks, activeBrowsers, trackerVars, putResult,
                 rotatorVars, backoffDelays, refreshDue, rejections>>

\* processSingleEvent stores what refreshCookies returned
ProcessSingleEventStoresCaptured(s, cookieId, outcome) ==
  /\ s \in DOMAIN visits
  /\ visits[s].pc = "storeCookies"
  /\ ProcessSingleEventStores(s, cookieId, visits[s].cookies, outcome)

\* the steps an executor and a session take by themselves: every await in
\* them is a bounded wait, a browser call with a timeout or a database call
ExecutorStep(e) ==
  \/ InitBrowserReturns(e)
  \/ ExecutorThrows(e)
  \/ \E raw \in PageCookies, blocked \in BOOLEAN :
       CaptureCookiesIterates(e, raw, blocked)

VisitStep(s) ==
  \/ RefreshPromiseStarts(s)
  \/ \E c \in CookieIds, outcome \in StoreOutcomes :
       ProcessSingleEventStoresCaptured(s, c, outcome)
  \/ \E reportThrows \in BOOLEAN : ProcessSingleEventReportsFailure(s, reportThrows)

(***************************************************************************)
(* Specifications.                                                         *)
(***************************************************************************)
Init ==
  /\ now = 0
  /\ Cookie = <<>>
  /\ bestCalls = <<>>
  /\ apiCalls = <<>>
  /\ qualityCalls = <<>>
  /\ isRunning = FALSE
  /\ visitTimer = NoTimer
  /\ cleanupTimer = NoTimer
  /\ timeouts = {}
  /\ intervals = <<>>
  /\ ticks = <<>>
  /\ sessions = <<>>
  /\ activeBrowsers = {}
  /\ CookieRefresh = <<>>
  /\ markCalls = <<>>
  /\ markOutcome = "none"
  /\ putResult = NoPut
  /\ proxies = <<>>
  /\ failedProxies = {}
  /\ failedTimers = {}
  /\ proxyResult = NoResult
  /\ refreshCalls = <<>>
  /\ browserLaunch = "none"
  /\ backoffDelays = <<>>
  /\ refreshDue = "none"
  /\ visits = <<>>
  /\ executors = <<>>
  /\ contexts = <<>>
  /\ rejections = {}

NextPool ==
  \/ Start
  \/ Stop
  \/ \E t \in timeouts : VisitTimerFires(t)
  \/ \E i \in DOMAIN intervals : CleanupTimerFires(i)
  \/ \E t \in TickIds, queryFails \in BOOLEAN : ProcessVisitsDecides(t, queryFails)
  \/ \E t \in TickIds, haveEvent \in BOOLEAN : StartNewBrowserSession(t, haveEvent)
  \/ \E s \in SessionIds, c \in CookieIds, p \in BrowserPayloads(now) :
       SessionSucceeds(s, c, p)
  \/ \E s \in SessionIds : SessionFails(s)

SpecPool == Init /\ [][NextPool]_vars

\* every awaited call of a session in flight settles (the capability call is
\* raced against a 2 minute timer), so a session in flight takes its next step
SessionStep(s) ==
  \/ \E c \in CookieIds, p \in BrowserPayloads(now) : SessionSucceeds(s, c, p)
  \/ SessionFails(s)

\* one run of the pool: its first start(), the ticks and sessions that
\* follow, and stop()
NextPoolRun ==
  \/ intervals = <<>> /\ Start
  \/ Stop
  \/ \E t \in timeouts : VisitTimerFires(t)
  \/ \E i \in DOMAIN intervals : CleanupTimerFires(i)
  \/ \E t \in TickIds, queryFails \in BOOLEAN : ProcessVisitsDecides(t, queryFails)
  \/ \E t \in TickIds, haveEvent \in BOOLEAN : StartNewBrowserSession(t, haveEvent)
  \/ \E s \in SessionIds, c \in CookieIds, p \in BrowserPayloads(now) :
       SessionSucceeds(s, c, p)
  \/ \E s \in SessionIds : SessionFails(s)

FairSpecPool ==
  Init /\ [][NextPoolRun]_vars /\ \A s \in SessionIds : WF_vars(SessionStep(s))

(***************************************************************************)
(* The store under its consumers: a getBestCookies caller, a request of    *)
(* the getCookies controller, puts, the eviction and the clock.            *)
(***************************************************************************)
ReaderIds == {"r1", "r2"}
ApiIds == {"a1"}
FeedbackIds == {"f1"}
Domains == {DefaultDomain}
BestCriteria ==
  [domain : {NoDomain}, tags : {{}}, excludeUsedRecently : BOOLEAN,
   maxUsageCount : {0}]

NextServe ==
  \/ \E c \in CookieIds, p \in Payloads(now), d \in Domains :
       PutCookies(c, p, d, {})
  \/ \E criteria \in BestCriteria : GetBestCookiesFinds("r1", criteria)
  \/ GetBestCookiesUpdates("r1")
  \/ \E a \in ApiIds, d \in Domains : ApiCleansUp(a, d)
  \/ \E a \in ApiIds : ApiGetsCookies(a)
  \/ \E a \in ApiIds : ApiCounts(a)
  \/ \E a \in ApiIds : ApiUpdatesUsage(a)
  \/ RunCleanupExpiredCookies
  \/ AdvanceClock

SpecServe == Init /\ [][NextServe]_vars

(***************************************************************************)
(* Overlapping getBestCookies callers on a store that is being filled.     *)
(***************************************************************************)
NextReaders ==
  \/ \E c \in CookieIds, p \in Payloads(now), d \in Domains :
       PutCookies(c, p, d, {})
  \/ \E r \in ReaderIds, criteria \in BestCriteria :
       GetBestCookiesFinds(r, criteria)
  \/ \E r \in ReaderIds : GetBestCookiesUpdates(r)
  \/ AdvanceClock

SpecReaders == Init /\ [][NextReaders]_vars

(***************************************************************************)
(* The life of one artifact under quality feedback.                        *)
(***************************************************************************)
NextFeedback ==
  \/ \E c \in CookieIds, p \in BrowserPayloads(now) :
       DOMAIN Cookie = {} /\ PutCookies(c, p, NoDomain, {})
  \/ \E f \in FeedbackIds, c \in CookieIds, success \in BOOLEAN :
       UpdateCookieQualityReads(f, c, success)
  \/ \E f \in FeedbackIds : UpdateCookieQualityWrites(f)
  \/ \E criteria \in BestCriteria : GetBestCookiesFinds("r1", criteria)
  \/ GetBestCookiesUpdates("r1")
  \/ RunCleanup

SpecFeedback == Init /\ [][NextFeedback]_vars

(***************************************************************************)
(* The attempt tracker under completion reports of its three variants.     *)
(***************************************************************************)
MarkIds == {"m1"}
MarkOps == {"markSuccess", "markFailed"}
ErrorMessages == {"Navigation timeout"}
CookieCounts == {3}
RetryCounts == {0, 1}

NextTracker ==
  \/ \E id \in RefreshIds : StartRefresh(id)
  \/ \E id \in RefreshIds, n \in CookieCounts, r \in RetryCounts :
       EnhancedMarkSuccess(id, n, r)
  \/ \E k \in MarkIds, id \in RefreshIds, e \in ErrorMessages, r \in RetryCounts :
       EnhancedMarkFailedFinds(k, id, e, r)
  \/ \E k \in MarkIds : EnhancedMarkFailedUpdates(k)
  \/ \E k \in MarkIds, op \in MarkOps, id \in RefreshIds, n \in CookieCounts,
        e \in ErrorMessages, r \in RetryCounts :
       LegacyMarkFinds(k, op, id, n, e, r)
  \/ \E k \in MarkIds : LegacyMarkUpdates(k)
  \/ \E k \in MarkIds, op \in MarkOps, id \in RefreshIds, n \in CookieCounts,
        e \in ErrorMessages, r \in RetryCounts :
       TrackerMarkFinds(k, op, id, n, e, r)
  \/ \E k \in MarkIds : TrackerMarkUpdates(k)
  \/ ResetStuckOperations(FiveMinutes)
  \/ AdvanceClock

SpecTracker == Init /\ [][NextTracker]_vars

(***************************************************************************)
(* storeCookies applied to payloads of every shape, one artifact at a time.*)
(***************************************************************************)
NextPut ==
  \/ \E c \in CookieIds, p \in PutPayloads(now) :
       /\ (DOMAIN Cookie = {} \/ c \in DOMAIN Cookie)
       /\ StoreCookiesReturns(c, p, NoDomain, {})
  \/ \E c \in CookieIds : StoreCookiesThrows(c)
  \/ AdvanceClock

SpecPut == Init /\ [][NextPut]_vars

(***************************************************************************)
(* getBestCookies applied to stores of several documents that differ in    *)
(* score, usage, tags, status and expiry.                                  *)
(***************************************************************************)
RankedIds == 1..MaxRanked

\* documents as storeCookies, updateCookieQuality and the usage updates leave
\* them: stored at time 0, some served once, some with failures behind them
RankedDocs ==
  LET fresh(tags) == NewCookieRecord(<<>>, NoDomain, tags, 0)
  IN { [fresh({}) EXCEPT !.score = sc, !.usageCount = u] :
         sc \in {100, 60, 45}, u \in {0, 1} }
     \cup { fresh({"pool-managed"}) }
     \cup { [fresh({}) EXCEPT !.score = 60, !.status = "failed",
                              !.isValid = FALSE] }
     \cup { NewCookieRecord(
              << [name |-> "session_id", value |-> "y",
                  expires |-> SecondsOf(FiveMinutes)] >>, NoDomain, {}, 0) }

RankedStores ==
  UNION { [ids -> RankedDocs] : ids \in SUBSET RankedIds }

SelectCriteria ==
  [domain : {NoDomain, DefaultDomain}, tags : {{}, {"pool-managed"}},
   excludeUsedRecently : BOOLEAN, maxUsageCount : {0, 1}]

InitSelect ==
  /\ now = 0
  /\ Cookie \in RankedStores
  /\ bestCalls = <<>>
  /\ apiCalls = <<>>
  /\ qualityCalls = <<>>
  /\ isRunning = FALSE
  /\ visitTimer = NoTimer
  /\ cleanupTimer = NoTimer
  /\ timeouts = {}
  /\ intervals = <<>>
  /\ ticks = <<>>
  /\ sessions = <<>>
  /\ activeBrowsers = {}
  /\ CookieRefresh = <<>>
  /\ markCalls = <<>>
  /\ markOutcome = "none"
  /\ putResult = NoPut
  /\ proxies = <<>>
  /\ failedProxies = {}
  /\ failedTimers = {}
  /\ proxyResult = NoResult
  /\ refreshCalls = <<>>
  /\ browserLaunch = "none"
  /\ backoffDelays = <<>>
  /\ refreshDue = "none"
  /\ visits = <<>>
  /\ executors = <<>>
  /\ contexts = <<>>
  /\ rejections = {}

NextSelect ==
  \/ \E criteria \in SelectCriteria : GetBestCookiesFinds("r1", criteria)
  \/ GetBestCookiesUpdates("r1")
  \/ AdvanceClock

SpecSelect == InitSelect /\ [][NextSelect]_vars

(***************************************************************************)
(* An artifact from storeCookies to its consumers: getBestCookies and the  *)
(* getCookies controller.                                                  *)
(***************************************************************************)
NextRoundTrip ==
  \/ \E c \in CookieIds, p \in PutPayloads(now) :
       /\ DOMAIN Cookie = {}
       /\ StoreCookiesReturns(c, p, NoDomain, {})
  \/ \E criteria \in BestCriteria : GetBestCookiesFinds("r1", criteria)
  \/ GetBestCookiesUpdates("r1")
  \/ \E a \in ApiIds, d \in Domains : ApiCleansUp(a, d)
  \/ \E a \in ApiIds : ApiGetsCookies(a)
  \/ \E a \in ApiIds : ApiCounts(a)
  \/ \E a \in ApiIds : ApiUpdatesUsage(a)
  \/ AdvanceClock

SpecRoundTrip == Init /\ [][NextRoundTrip]_vars

(***************************************************************************)
(* calculateBackoffDelay over the failure counts markFailed can pass.      *)
(***************************************************************************)
FailureCounts == 1..MaxFailures

NextBackoff == \E n \in FailureCounts : CalculatesBackoff(n)

SpecBackoff == Init /\ [][NextBackoff]_vars

(***************************************************************************)
(* Consecutive failed attempts on one logical target, each tracked by the  *)
(* enhanced tracker: an attempt starts when the one before it has ended.   *)
(***************************************************************************)
AttemptIds == 1..(MaxRefreshes + 1)

NextFailures ==
  \/ \E id \in AttemptIds :
       /\ id = FreshId(DOMAIN CookieRefresh)
       /\ \A i \in DOMAIN CookieRefresh : CookieRefresh[i].status \in Terminal
       /\ StartRefresh(id)
  \/ \E k \in MarkIds, id \in AttemptIds, e \in ErrorMessages, n \in RetryCounts :
       EnhancedMarkFailedFinds(k, id, e, n)
  \/ \E k \in MarkIds : EnhancedMarkFailedUpdates(k)
  \/ AdvanceClock

SpecFailures == Init /\ [][NextFailures]_vars

(***************************************************************************)
(* The proxy rotator on its own, from any configured list, within the ten   *)
(* minutes in which no timeout of markProxyAsFailed fires.                 *)
(***************************************************************************)
ProxyLists == SeqsUpTo(ProxyNames, MaxProxies)
RefreshCallIds == {"c1"}

InitRotator ==
  /\ now = 0
  /\ Cookie = <<>>
  /\ bestCalls = <<>>
  /\ apiCalls = <<>>
  /\ qualityCalls = <<>>
  /\ isRunning = FALSE
  /\ visitTimer = NoTimer
  /\ cleanupTimer = NoTimer
  /\ timeouts = {}
  /\ intervals = <<>>
  /\ ticks = <<>>
  /\ sessions = <<>>
  /\ activeBrowsers = {}
  /\ CookieRefresh = <<>>
  /\ markCalls = <<>>
  /\ markOutcome = "none"
  /\ putResult = NoPut
  /\ proxies \in ProxyLists
  /\ failedProxies = {}
  /\ failedTimers = {}
  /\ proxyResult = NoResult
  /\ refreshCalls = <<>>
  /\ browserLaunch = "none"
  /\ backoffDelays = <<>>
  /\ refreshDue = "none"
  /\ visits = <<>>
  /\ executors = <<>>
  /\ contexts = <<>>
  /\ rejections = {}

NextRotator ==
  \/ \E avoidFailedProxies \in BOOLEAN : GetRandomProxy(avoidFailedProxies)
  \/ \E currentProxy \in ProxyNames \cup {NoProxy} : GetFreshProxy(currentProxy)
  \/ \E proxyString \in ProxyNames : MarkProxyAsFailed(proxyString)

SpecRotator == InitRotator /\ [][NextRotator]_vars

\* refreshCookies over the rotator
NextRefresh ==
  \/ \E r \in RefreshCallIds : RefreshCookiesBegins(r)
  \/ \E r \in RefreshCallIds : RefreshCookiesLaunches(r)
  \/ \E r \in RefreshCallIds, proxyRelated \in BOOLEAN :
       RefreshCookiesInitFails(r, proxyRelated)
  \/ \E r \in RefreshCallIds : RefreshCookiesReturns(r)
  \/ \E r \in RefreshCallIds : RefreshCookiesRetries(r)
  \/ \E timer \in failedTimers : FailedTimerFires(timer)
  \/ AdvanceClock

SpecRefresh == InitRotator /\ [][NextRefresh]_vars

(***************************************************************************)
(* The failed set over time: marks, their timeouts, the all-failed reset.  *)
(***************************************************************************)
NextFailedTtl ==
  \/ \E proxyString \in ProxyNames : MarkProxyAsFailed(proxyString)
  \/ \E timer \in failedTimers : FailedTimerFires(timer)
  \/ \E avoidFailedProxies \in BOOLEAN : GetRandomProxy(avoidFailedProxies)
  \/ AdvanceClock

SpecFailedTtl == InitRotator /\ [][NextFailedTtl]_vars

(***************************************************************************)
(* The ticks of one run of the pool over a store that is below             *)
(* minCookiePool, inside the band or at maxCookiePool.                     *)
(***************************************************************************)
\* documents of the pool: one that expires in 24 h, one that expires in five
\* minutes, one that feedback has failed
PoolDocs ==
  { NewCookieRecord(<<>>, NoDomain, {"pool-managed"}, 0),
    NewCookieRecord(<< [name |-> "session_id", value |-> "y",
                        expires |-> SecondsOf(FiveMinutes)] >>,
                    NoDomain, {"pool-managed"}, 0),
    [NewCookieRecord(<<>>, NoDomain, {"pool-managed"}, 0)
       EXCEPT !.score = 15, !.status = "failed", !.isValid = FALSE] }

PoolStores == UNION { [ids -> PoolDocs] : ids \in SUBSET RankedIds }

InitTick ==
  /\ now = 0
  /\ Cookie \in PoolStores
  /\ bestCalls = <<>>
  /\ apiCalls = <<>>
  /\ qualityCalls = <<>>
  /\ isRunning = FALSE
  /\ visitTimer = NoTimer
  /\ cleanupTimer = NoTimer
  /\ timeouts = {}
  /\ intervals = <<>>
  /\ ticks = <<>>
  /\ sessions = <<>>
  /\ activeBrowsers = {}
  /\ CookieRefresh = <<>>
  /\ markCalls = <<>>
  /\ markOutcome = "none"
  /\ putResult = NoPut
  /\ proxies = <<>>
  /\ failedProxies = {}
  /\ failedTimers = {}
  /\ proxyResult = NoResult
  /\ refreshCalls = <<>>
  /\ browserLaunch = "none"
  /\ backoffDelays = <<>>
  /\ refreshDue = "none"
  /\ visits = <<>>
  /\ executors = <<>>
  /\ contexts = <<>>
  /\ rejections = {}

NextTick ==
  \/ intervals = <<>> /\ Start
  \/ \E t \in timeouts : VisitTimerFires(t)
  \/ \E t \in TickIds, queryFails \in BOOLEAN : ProcessVisitsDecides(t, queryFails)
  \/ \E t \in TickIds, haveEvent \in BOOLEAN : StartNewBrowserSession(t, haveEvent)
  \/ \E s \in SessionIds : SessionFails(s)

SpecTick == InitTick /\ [][NextTick]_vars

(***************************************************************************)
(* The eviction sweeps over a store that feedback keeps scoring.  Both     *)
(* sweeps decide document by document, so the store holds one document: a  *)
(* new one, one stored more than 24 hours ago and expired, one that        *)
(* feedback has failed, one that is one failure away from that.            *)
(***************************************************************************)
EvictDocs ==
  { NewCookieRecord(<<>>, NoDomain, {"pool-managed"}, 0),
    NewCookieRecord(<<>>, NoDomain, {"pool-managed"},
                    0 - DefaultExpiry - FiveMinutes),
    [NewCookieRecord(<<>>, NoDomain, {"pool-managed"}, 0)
       EXCEPT !.score = 15, !.status = "failed", !.isValid = FALSE],
    [NewCookieRecord(<<>>, NoDomain, {"pool-managed"}, 0)
       EXCEPT !.score = 20] }

EvictStores ==
  UNION { [ids -> EvictDocs] :
            ids \in {x \in SUBSET CookieIds : Cardinality(x) <= 1} }

InitEvict ==
  /\ now = 0
  /\ Cookie \in EvictStores
  /\ bestCalls = <<>>
  /\ apiCalls = <<>>
  /\ qualityCalls = <<>>
  /\ isRunning = FALSE
  /\ visitTimer = NoTimer
  /\ cleanupTimer = NoTimer
  /\ timeouts = {}
  /\ intervals = <<>>
  /\ ticks = <<>>
  /\ sessions = <<>>
  /\ activeBrowsers = {}
  /\ CookieRefresh = <<>>
  /\ markCalls = <<>>
  /\ markOutcome = "none"
  /\ putResult = NoPut
  /\ proxies = <<>>
  /\ failedProxies = {}
  /\ failedTimers = {}
  /\ proxyResult = NoResult
  /\ refreshCalls = <<>>
  /\ browserLaunch = "none"
  /\ backoffDelays = <<>>
  /\ refreshDue = "none"
  /\ visits = <<>>
  /\ executors = <<>>
  /\ contexts = <<>>
  /\ rejections = {}

NextEvict ==
  \/ RunCleanupExpiredCookies
  \/ RunCleanup
  \/ \E f \in FeedbackIds, c \in CookieIds, success \in BOOLEAN :
       UpdateCookieQualityReads(f, c, success)
  \/ \E f \in FeedbackIds : UpdateCookieQualityWrites(f)

SpecEvict == InitEvict /\ [][NextEvict]_vars

\* the setInterval of start() runs CookieService.cleanup again and again
FairSpecEvict == SpecEvict /\ WF_vars(RunCleanup)

(***************************************************************************)
(* One artifact served by getBestCookies and, at the same time, by the     *)
(* getCookies controller while feedback scores it and the cleanup sweeps.  *)
(***************************************************************************)
NextUsage ==
  \/ \E c \in CookieIds, p \in BrowserPayloads(now) :
       DOMAIN Cookie = {} /\ PutCookies(c, p, NoDomain, {})
  \/ \E criteria \in BestCriteria : GetBestCookiesFinds("r1", criteria)
  \/ GetBestCookiesUpdates("r1")
  \/ \E a \in ApiIds, d \in Domains : ApiCleansUp(a, d)
  \/ \E a \in ApiIds : ApiGetsCookies(a)
  \/ \E a \in ApiIds : ApiCounts(a)
  \/ \E a \in ApiIds : ApiUpdatesUsage(a)
  \/ \E f \in FeedbackIds, c \in DOMAIN Cookie :
       \* one failure report for each artifact
       Cookie[c].score = InitialScore /\ UpdateCookieQualityReads(f, c, FALSE)
  \/ \E f \in FeedbackIds : UpdateCookieQualityWrites(f)
  \/ RunCleanup
  \/ AdvanceClock

SpecUsage == Init /\ [][NextUsage]_vars

(***************************************************************************)
(* isRefreshDue asked while attempts are started and reported to the two   *)
(* classes that have it, over a horizon longer than the refresh interval.  *)
(***************************************************************************)
NextDue ==
  \/ \E id \in RefreshIds : StartRefresh(id)
  \/ \E k \in MarkIds, op \in MarkOps, id \in RefreshIds, n \in CookieCounts,
        e \in ErrorMessages :
       LegacyMarkFinds(k, op, id, n, e, 0)
  \/ \E k \in MarkIds : LegacyMarkUpdates(k)
  \/ \E k \in MarkIds, op \in MarkOps, id \in RefreshIds, n \in CookieCounts,
        e \in ErrorMessages :
       TrackerMarkFinds(k, op, id, n, e, 0)
  \/ \E k \in MarkIds : TrackerMarkUpdates(k)
  \/ IsRefreshDue
  \/ AdvanceQuarterHour

SpecDue == Init /\ [][NextDue]_vars

(***************************************************************************)
(* The session that the initial run of start() spawns, followed through    *)
(* processSingleEvent and refreshCookies to the end of its promise.        *)
(***************************************************************************)
NextSession ==
  \/ intervals = <<>> /\ Start
  \/ \E t \in TickIds : ProcessVisitsDecides(t, FALSE)
  \/ \E t \in TickIds : StartNewBrowserSession(t, TRUE)
  \/ \E s \in SessionIds : RefreshPromiseStarts(s)
  \/ \E e \in ExecutorIds : InitBrowserReturns(e)
  \/ \E e \in ExecutorIds : ExecutorThrows(e)
  \/ \E e \in ExecutorIds : ExecutorResolves(e)
  \/ \E e \in ExecutorIds : TimeoutWinsRace(e)
  \/ \E s \in SessionIds, c \in CookieIds, p \in BrowserPayloads(now),
        outcome \in StoreOutcomes :
       ProcessSingleEventStores(s, c, p, outcome)
  \/ \E s \in SessionIds, reportThrows \in BOOLEAN :
       ProcessSingleEventReportsFailure(s, reportThrows)

SpecSession == Init /\ [][NextSession]_vars

(***************************************************************************)
(* A session with captureCookies in detail: what the page yields is        *)
(* checked up to five times per executor; the timer fires while the        *)
(* executor is on its page.                                                *)
(***************************************************************************)
NextCapture ==
  \/ intervals = <<>> /\ Start
  \/ \E t \in TickIds : ProcessVisitsDecides(t, FALSE)
  \/ \E t \in TickIds : StartNewBrowserSession(t, TRUE)
  \/ \E s \in SessionIds : RefreshPromiseStarts(s)
  \/ \E e \in ExecutorIds : InitBrowserReturns(e)
  \/ \E e \in ExecutorIds : ExecutorThrows(e)
  \/ \E e \in ExecutorIds, raw \in PageCookies, blocked \in BOOLEAN :
       CaptureCookiesIterates(e, raw, blocked)
  \/ \E e \in ExecutorIds :
       e \in DOMAIN contexts /\ TimeoutWinsRace(e)
  \/ \E s \in SessionIds, c \in CookieIds, outcome \in StoreOutcomes :
       ProcessSingleEventStoresCaptured(s, c, outcome)
  \/ \E s \in SessionIds, reportThrows \in BOOLEAN :
       ProcessSingleEventReportsFailure(s, reportThrows)

SpecCapture == Init /\ [][NextCapture]_vars

FairSpecCapture ==
  /\ SpecCapture
  /\ WF_vars(\E e \in ExecutorIds : ExecutorStep(e))
  /\ WF_vars(\E s \in SessionIds : VisitStep(s))

(***************************************************************************)
(* The scheduler while getRandomEvent finds no event: every tick passes    *)
(* the pool queries and comes back from startNewBrowserSession empty.      *)
(***************************************************************************)
NextIdle ==
  \/ Start
  \/ Stop
  \/ \E t \in timeouts : VisitTimerFires(t)
  \/ \E t \in TickIds : ProcessVisitsDecides(t, FALSE)
  \/ \E t \in TickIds : StartNewBrowserSession(t, FALSE)

SpecIdle == Init /\ [][NextIdle]_vars

(***************************************************************************)
(* Two updateCookieQuality calls in flight on one artifact.                *)
(***************************************************************************)
FeedbackPairIds == {"f1", "f2"}

NextFeedbackRace ==
  \/ \E c \in CookieIds, p \in BrowserPayloads(now) :
       DOMAIN Cookie = {} /\ PutCookies(c, p, NoDomain, {})
  \/ \E f \in FeedbackPairIds, c \in CookieIds, success \in BOOLEAN :
       UpdateCookieQualityReads(f, c, success)
  \/ \E f \in FeedbackPairIds : UpdateCookieQualityWrites(f)

SpecFeedbackRace == Init /\ [][NextFeedbackRace]_vars

(***************************************************************************)
(* The attempt tracker under its history pruning.                          *)
(***************************************************************************)
NextPrune ==
  \/ \E id \in RefreshIds : StartRefresh(id)
  \/ \E id \in RefreshIds, n \in CookieCounts, r \in RetryCounts :
       EnhancedMarkSuccess(id, n, r)
  \/ \E k \in MarkIds, id \in RefreshIds, e \in ErrorMessages, r \in RetryCounts :
       EnhancedMarkFailedFinds(k, id, e, r)
  \/ \E k \in MarkIds : EnhancedMarkFailedUpdates(k)
  \/ EnhancedCleanup(FiveMinutes)
  \/ TrackerCleanup(FiveMinutes)
  \/ AdvanceClock

SpecPrune == Init /\ [][NextPrune]_vars

(***************************************************************************)
(* Claims about the pool scheduler.                                        *)
(***************************************************************************)

\* C1: in every reachable state the number of session ids in activeBrowsers
\* is at most maxConcurrentBrowsers.
C1_ActiveSessionsWithinCap ==
  Cardinality(activeBrowsers) <= MaxConcurrentBrowsers

\* C7: every session id added to activeBrowsers is eventually removed.
C7_SessionEventuallyRemoved ==
  \A s \in SessionIds : (s \in activeBrowsers) ~> (s \notin activeBrowsers)

\* C7 witness: a session in flight that is on its last retry
C7_Witness ==
  \E s \in DOMAIN sessions : s \in activeBrowsers /\ sessions[s] = MaxRetries

\* C8: once stop() has returned no timer that start() created is still armed,
\* so no timer-triggered tick or cleanup run can occur before the next start().
C8_StopCancelsEveryTimer ==
  ~isRunning => (timeouts = {} /\ DOMAIN intervals = {})

\* C9: stop() leaves activeBrowsers unchanged and aborts no session in flight;
\* an id leaves activeBrowsers only in the step in which its own session ends.
C9_StopLeavesSessions ==
  [][ /\ (isRunning /\ ~isRunning') =>
          (activeBrowsers' = activeBrowsers /\ sessions' = sessions)
      /\ \A s \in activeBrowsers \ activeBrowsers' :
          s \in DOMAIN sessions /\ s \notin DOMAIN sessions' ]_vars

\* C9 witness: the pool is stopped while a session is still in flight
C9_Witness ==
  ~isRunning /\ activeBrowsers # {} /\ activeBrowsers = DOMAIN sessions

(***************************************************************************)
(* Claims about the attempt tracker.                                       *)
(***************************************************************************)

\* C2: an attempt leaves in_progress at most once: once the status of a record
\* is success or failed, no markSuccess, markFailed or resetStuckOperations of
\* the enhanced class or of cookieRefreshTracker.js changes its status again.
C2_TerminalIsFinal ==
  [][ \A id \in DOMAIN CookieRefresh \cap DOMAIN CookieRefresh' :
        ( /\ CookieRefresh[id].status \in Terminal
          /\ ~ \E k \in DOMAIN markCalls \ DOMAIN markCalls' :
                 markCalls[k].impl = "legacy" )
        => CookieRefresh'[id].status = CookieRefresh[id].status ]_vars

\* C3: a markSuccess or markFailed of cookieRefreshService.js that completes on
\* a record that is already terminal fails with the not-found error and leaves
\* every field of the record as it was.
C3_SecondReportRejected ==
  [][ \A k \in DOMAIN markCalls \ DOMAIN markCalls' :
        ( /\ markCalls[k].impl \in {"enhanced", "legacy"}
          /\ markCalls[k].refreshId \in DOMAIN CookieRefresh
          /\ CookieRefresh[markCalls[k].refreshId].status \in Terminal )
        => /\ CookieRefresh' = CookieRefresh
           /\ markOutcome' \in {"Refresh record not found",
                                "Refresh record not found or already completed"}
    ]_vars

(***************************************************************************)
(* Claims about the artifact store.                                        *)
(***************************************************************************)

\* C4: the document getBestCookies found, and the one the getCookies query
\* put first for the controller, has validity.expiresAt later than the time of
\* the read, whether or not a cleanup has run since it expired.
C4_NeverServesExpired ==
  /\ \A r \in DOMAIN bestCalls :
       bestCalls[r].cookie.expiresAt > bestCalls[r].readAt
  /\ \A a \in DOMAIN apiCalls :
       apiCalls[a].cookieId # NoCookie =>
         apiCalls[a].expiresAt > apiCalls[a].readAt

\* C4 witness: getBestCookies holds a document that is five minutes from its
\* expiry, read after the clock has moved
C4_Witness ==
  \E r \in DOMAIN bestCalls :
    /\ bestCalls[r].readAt > 0
    /\ bestCalls[r].cookie.expiresAt = bestCalls[r].readAt + FiveMinutes

\* C5: after any sequence of storeCookies and updateCookieQuality calls the
\* quality.score of every document is between 0 and 100.
C5_ScoreWithinRange ==
  \A c \in DOMAIN Cookie : 0 <= Cookie[c].score /\ Cookie[c].score <= MaxScore

\* C5 witness: failures have brought a document down to score 0
C5_Witness ==
  \E c \in DOMAIN Cookie : Cookie[c].score = 0 /\ Cookie[c].status = "failed"

\* C6: a failure that takes the score below 20 leaves the document failed and
\* invalid; a failed document stays failed and invalid under every later
\* updateCookieQuality, and no getBestCookies that starts later finds it.
C6_FailedIsTerminal ==
  [][ /\ \A c \in DOMAIN Cookie \cap DOMAIN Cookie' :
           /\ ( /\ Cookie[c].score >= FailedScoreThreshold
                /\ Cookie'[c].score < FailedScoreThreshold )
              => (Cookie'[c].status = "failed" /\ ~Cookie'[c].isValid)
           /\ Cookie[c].status = "failed"
              => (Cookie'[c].status = "failed" /\ ~Cookie'[c].isValid)
      /\ \A r \in DOMAIN bestCalls' \ DOMAIN bestCalls :
           /\ Cookie[bestCalls'[r].cookieId].status = "active"
           /\ Cookie[bestCalls'[r].cookieId].isValid ]_vars

\* C6 witness: a failed document whose score successes have raised to 20 again
C6_Witness ==
  \E c \in DOMAIN Cookie :
    /\ Cookie[c].status = "failed"
    /\ ~Cookie[c].isValid
    /\ Cookie[c].score >= FailedScoreThreshold

\* C10: the selection of getBestCookies and its usage update are one step:
\* two getBestCookies calls with excludeUsedRecently that overlap never hold,
\* and so never return, the same document.
C10_SelectionIsAtomic ==
  \A r1, r2 \in DOMAIN bestCalls :
    ( /\ r1 # r2
      /\ bestCalls[r1].excludeUsedRecently
      /\ bestCalls[r2].excludeUsedRecently )
    => bestCalls[r1].cookieId # bestCalls[r2].cookieId

\* C11: storeCookies stores a document with score 100, status active, isValid
\* true and expiresAt equal to the least expiry of the payload that lies in the
\* future at the time of the call, or that time + 24 h when the payload has
\* no future expiry.
C11_PutComputesExpiry ==
  \A c \in DOMAIN Cookie :
    LET doc == Cookie[c]
        t == doc.lastSuccessful
        future == {e.expires * 1000 : e \in
                     {doc.cookies[i] : i \in DOMAIN doc.cookies}} \cap
                  {x \in Int : x > t}
    IN /\ doc.score = 100 /\ doc.status = "active" /\ doc.isValid
       /\ doc.expiresAt =
            IF future = {} THEN t + 24 * 60 * 60 * 1000
            ELSE CHOOSE x \in future : \A y \in future : x <= y

C13_BestAmongUnderUsageCap ==
  \A criteria \in SelectCriteria :
    LET pass(d) ==
          /\ Cookie[d].status = "active" /\ Cookie[d].isValid
          /\ Cookie[d].expiresAt > now
          /\ (criteria.domain # NoDomain => Cookie[d].domain = criteria.domain)
          /\ (criteria.tags # {} => Cookie[d].tags \cap criteria.tags # {})
          /\ Cookie[d].score >= 50
          /\ (criteria.excludeUsedRecently =>
                Cookie[d].lastUsed < now - 5 * 60 * 1000)
          /\ (criteria.maxUsageCount > 0 =>
                Cookie[d].usageCount < criteria.maxUsageCount)
        passing == {d \in DOMAIN Cookie : pass(d)}
        found == BestCookies(Cookie, criteria, now)
    IN /\ (found = {}) <=> (passing = {})
       /\ \A c \in found :
            /\ c \in passing
            /\ \A d \in passing :
                 /\ Cookie[d].score <= Cookie[c].score
                 /\ Cookie[d].score = Cookie[c].score
                      => Cookie[c].usageCount <= Cookie[d].usageCount

\* C13 (as stated): the same with the filter of the claim, which has no bound
\* on usageCount.
C13_BestAmongFilter ==
  \A criteria \in SelectCriteria :
    LET pass(d) ==
          /\ Cookie[d].status = "active" /\ Cookie[d].isValid
          /\ Cookie[d].expiresAt > now
          /\ (criteria.domain # NoDomain => Cookie[d].domain = criteria.domain)
          /\ (criteria.tags # {} => Cookie[d].tags \cap criteria.tags # {})
          /\ Cookie[d].score >= 50
          /\ (criteria.excludeUsedRecently =>
                Cookie[d].lastUsed < now - 5 * 60 * 1000)
        passing == {d \in DOMAIN Cookie : pass(d)}
        found == BestCookies(Cookie, criteria, now)
    IN /\ (found = {}) <=> (passing = {})
       /\ \A c \in found :
            /\ c \in passing
            /\ \A d \in passing :
                 /\ Cookie[d].score <= Cookie[c].score
                 /\ Cookie[d].score = Cookie[c].score
                      => Cookie[c].usageCount <= Cookie[d].usageCount

\* C13 witness: getBestCookies holds a document it preferred, on usageCount,
\* to another document of the same score that it could have returned
C13_Witness ==
  \E r \in DOMAIN bestCalls : \E d \in DOMAIN Cookie :
    /\ d # bestCalls[r].cookieId
    /\ Cookie[d].status = "active" /\ Cookie[d].isValid
    /\ Cookie[d].expiresAt > bestCalls[r].readAt
    /\ Cookie[d].tags = bestCalls[r].cookie.tags
    /\ Cookie[d].score = bestCalls[r].cookie.score
    /\ Cookie[d].usageCount > bestCalls[r].cookie.usageCount

\* C14: a document just stored from the payload
\* [{name: "auth_token", value: "x", expires: now + 3600}] is found by every
\* getBestCookies issued right after, and the tmpt extraction of the
\* controller on that payload gives "x" with the expiry of the entry.
C14_RoundTrip ==
  LET entry(t) == [name |-> "auth_token", value |-> "x",
                   expires |-> SecondsOf(t) + 3600]
  IN /\ \A c \in DOMAIN Cookie :
          ( /\ Cookie[c].cookies = << entry(now) >>
            /\ Cookie[c].lastSuccessful = now
            /\ Cookie[c].usageCount = 0 )
          => \A criteria \in BestCriteria :
               c \in BestCookies(Cookie, criteria, now)
     /\ \A a \in DOMAIN apiCalls :
          ( /\ apiCalls[a].pc = "updateCookieUsage"
            /\ apiCalls[a].cookies = << entry(apiCalls[a].readAt) >> )
          => /\ apiCalls[a].tmpt = "x"
             /\ apiCalls[a].expiry = (SecondsOf(apiCalls[a].readAt) + 3600) * 1000

\* C15: calculateBackoffDelay(n) is min(1 h, 5 min * 2^min(n-1, 4)) for
\* n >= 1: 5, 10, 20 and 40 minutes for n = 1..4 and one hour from n = 5 on;
\* it never decreases as n grows and never exceeds one hour.
C15_BackoffBoundedMonotone ==
  \A n \in DOMAIN backoffDelays :
    /\ backoffDelays[n] <= OneHour
    /\ (n = 1 => backoffDelays[n] = FiveMinutes)
    /\ (n = 2 => backoffDelays[n] = 2 * FiveMinutes)
    /\ (n = 3 => backoffDelays[n] = 4 * FiveMinutes)
    /\ (n = 4 => backoffDelays[n] = 8 * FiveMinutes)
    /\ (n >= 5 => backoffDelays[n] = OneHour)
    /\ \A m \in DOMAIN backoffDelays : m <= n => backoffDelays[m] <= backoffDelays[n]

\* the delays of 1, 5 and 6 consecutive failures have all been computed
C15_Witness ==
  /\ {1, 5, 6} \subseteq DOMAIN backoffDelays
  /\ backoffDelays[1] = FiveMinutes
  /\ backoffDelays[5] = OneHour
  /\ backoffDelays[6] = OneHour

\* C16: the k-th consecutive failed attempt on a target records
\* consecutiveFailures = k and nextScheduledRefresh = completionTime +
\* min(1 h, 5 min * 2^min(k-1, 4)): 5 minutes after the first failure, 10
\* after the second.
C16_KthFailureRecordsK ==
  \A id \in DOMAIN CookieRefresh :
    CookieRefresh[id].status = "failed"
    => /\ CookieRefresh[id].consecutiveFailures = id
       /\ CookieRefresh[id].nextScheduledRefresh =
            CookieRefresh[id].completionTime
              + Min(OneHour, FiveMinutes * Pow2(Min(id - 1, 4)))

\* C17: getRandomProxy(true) on a non-empty list whose proxies are all in the
\* failed set returns a proxy of the list and leaves the failed set empty.
C17_AllFailedClearsAndPicks ==
  [][ ( /\ proxyResult'.call # proxyResult.call
        /\ proxyResult'.op = "getRandomProxy"
        /\ proxyResult'.avoid
        /\ proxies # <<>>
        /\ Range(proxies) \subseteq failedProxies )
      => ( /\ proxyResult'.proxy \in Range(proxies)
           /\ failedProxies' = {} ) ]_vars

\* C17 witness: every proxy of the list was marked less than ten minutes
\* ago, and a getRandomProxy(true) has returned one with the failed set empty
C17_Witness ==
  /\ proxyResult.op = "getRandomProxy"
  /\ proxyResult.avoid
  /\ proxyResult.proxy \in Range(proxies)
  /\ failedProxies = {}
  /\ now < TenMinutes
  /\ Range(proxies) \subseteq {timer.proxy : timer \in failedTimers}

\* C18: when some proxy of the list is not in the failed set,
\* getRandomProxy(true) returns a proxy of the list that is not in the failed
\* set and leaves the failed set as it was.
C18_PicksNonFailed ==
  [][ ( /\ proxyResult'.call # proxyResult.call
        /\ proxyResult'.op = "getRandomProxy"
        /\ proxyResult'.avoid
        /\ Range(proxies) \ failedProxies # {} )
      => ( /\ proxyResult'.proxy \in Range(proxies) \ failedProxies
           /\ failedProxies' = failedProxies ) ]_vars

\* C18 witness: a getRandomProxy(true) returned a proxy that is not failed
\* while another proxy of the list is failed
C18_Witness ==
  /\ proxyResult.op = "getRandomProxy"
  /\ proxyResult.avoid
  /\ proxyResult.proxy \in Range(proxies) \ failedProxies
  /\ Range(proxies) \cap failedProxies # {}

\* C19: choosing a proxy yields none exactly when the list is empty, and with
\* an empty list refreshCookies ends failed without launching the browser.
C19_NoProxyNoLaunch ==
  /\ \A r \in DOMAIN refreshCalls :
       refreshCalls[r].currentProxy = NoProxy <=> proxies = <<>>
  /\ proxies = <<>> => browserLaunch = "none"

\* C20: getFreshProxy makes at most ten draws and one fallback draw, returns
\* a proxy of the list when the list is not empty, and returns the current
\* proxy only when the list has at most one proxy or all ten draws and the
\* fallback were made.
C20_FreshProxyBounded ==
  proxyResult.op = "getFreshProxy"
  => /\ proxyResult.picks <= MaxFreshAttempts + 1
     /\ (proxies # <<>> => proxyResult.proxy \in Range(proxies))
     /\ ( (proxyResult.current # NoProxy /\ proxyResult.proxy = proxyResult.current)
          => (Len(proxies) <= 1 \/ proxyResult.picks = MaxFreshAttempts + 1) )

\* C20 witness: with two proxies, ten draws gave the current one and the
\* fallback draw gave the other
C20_Witness ==
  /\ proxyResult.op = "getFreshProxy"
  /\ Len(proxies) > 1
  /\ proxyResult.picks = MaxFreshAttempts + 1
  /\ proxyResult.current # NoProxy
  /\ proxyResult.proxy # proxyResult.current

\* C21: a proxy leaves the failed set only by the all-failed reset of
\* getRandomProxy or once ten minutes have passed since its most recent
\* markProxyAsFailed, that is, when no timeout armed for it is still ahead.
C21_FailedUntilTtlOfLastMark ==
  [][ \A p \in failedProxies \ failedProxies' :
        \/ (proxyResult' # proxyResult /\ failedProxies' = {})
        \/ \A timer \in failedTimers : timer.proxy = p => timer.at <= now ]_vars

\* C22: a tick that finds activeBrowsers.size below maxConcurrentBrowsers goes
\* on to startNewBrowserSession whatever the pool size (below minCookiePool,
\* inside the band, at maxCookiePool), and with an event it adds exactly one
\* session id; a tick that finds the size at maxConcurrentBrowsers ends
\* without adding one.
C22_TickSpawnsOne ==
  [][ \A t \in TickIds :
        /\ ( /\ ProcessVisitsDecides(t, FALSE)
             /\ Cardinality(activeBrowsers) < MaxConcurrentBrowsers )
           => (t \in DOMAIN ticks' /\ ticks'[t].pc = "getRandomEvent")
        /\ StartNewBrowserSession(t, TRUE)
           => ( /\ activeBrowsers \subseteq activeBrowsers'
                /\ Cardinality(activeBrowsers') = Cardinality(activeBrowsers) + 1 )
        /\ ( /\ \E queryFails \in BOOLEAN : ProcessVisitsDecides(t, queryFails)
             /\ Cardinality(activeBrowsers) >= MaxConcurrentBrowsers )
           => ( /\ t \notin DOMAIN ticks'
                /\ activeBrowsers' = activeBrowsers
                /\ sessions' = sessions ) ]_vars

\* C22 witness: with the pool at maxCookiePool and nothing about to expire, a
\* tick has added a session and the next tick found the slot taken and ended
C22_Witness ==
  /\ CurrentCookies(Cookie, now) >= MaxCookiePool
  /\ ExpiringCookies(Cookie, now) = {}
  /\ Cardinality(activeBrowsers) = MaxConcurrentBrowsers
  /\ ticks = <<>>
  /\ timeouts # {}

\* C23: a sweep deletes a document with isValid = false that has not expired
\* only when its last modification is more than 24 hours old, and a sweep
\* leaves no document with expiresAt before the time of the sweep.
C23_GraceBeforeDeletion ==
  [][ /\ \A c \in DOMAIN Cookie \ DOMAIN Cookie' :
           (Cookie[c].isValid = FALSE /\ ~(Cookie[c].expiresAt < now))
           => Cookie[c].updatedAt < now - DefaultExpiry
      /\ DOMAIN Cookie' # DOMAIN Cookie
           => \A c \in DOMAIN Cookie' : ~(Cookie'[c].expiresAt < now) ]_vars

C24_UsageCountsServings ==
  [][ /\ \A c \in DOMAIN Cookie \cap DOMAIN Cookie' :
           Cookie'[c].usageCount >= Cookie[c].usageCount
      /\ \A r \in DOMAIN bestCalls \ DOMAIN bestCalls' :
           bestCalls[r].cookieId \in DOMAIN Cookie
             => /\ Cookie'[bestCalls[r].cookieId].usageCount
                     = Cookie[bestCalls[r].cookieId].usageCount + 1
                /\ Cookie'[bestCalls[r].cookieId].lastUsed = now
      /\ \A a \in DOMAIN apiCalls \ DOMAIN apiCalls' :
           apiCalls[a].cookieId \in DOMAIN Cookie
             => /\ Cookie'[apiCalls[a].cookieId].usageCount
                     = Cookie[apiCalls[a].cookieId].usageCount + 1
                /\ Cookie'[apiCalls[a].cookieId].lastUsed = now ]_vars

\* C24 witness: a document served twice, the second time after its storing
C24_Witness ==
  \E c \in DOMAIN Cookie :
    /\ Cookie[c].usageCount >= 2
    /\ Cookie[c].lastUsed = now
    /\ now > 0

\* C25: isRefreshDue answers true when no attempt is successful; otherwise it
\* answers false before, and true from, 30 minutes after the completion of
\* the most recent successful attempt; and at a given time its answer changes
\* only when a markSuccess completes.
C25_DueHalfHourAfterSuccess ==
  [][ /\ IsRefreshDue
           => IF LastSuccessful(CookieRefresh) = {}
                THEN refreshDue' = "due"
                ELSE \A id \in LastSuccessful(CookieRefresh) :
                       refreshDue' =
                         IF CookieRefresh[id].completionTime + ThirtyMinutes <= now
                           THEN "due" ELSE "notDue"
      /\ ( /\ now' = now
           /\ IsRefreshDueAnswers(CookieRefresh', now)
                # IsRefreshDueAnswers(CookieRefresh, now) )
           => \E id \in DOMAIN CookieRefresh' :
                /\ CookieRefresh'[id].status = "success"
                /\ id \in DOMAIN CookieRefresh
                     => CookieRefresh'[id] # CookieRefresh[id] ]_vars

\* C26: resetStuckOperations(maxDurationMs) turns into failed, with its own
\* error message, exactly the records that are in_progress and started more
\* than maxDurationMs ago and leaves the other records as they are; and a
\* markSuccess or markFailed that arrives for a record so reset fails and
\* leaves the record as the reset wrote it.
C26_ResetStuckExactAndFinal ==
  [][ LET resetMessage == "Operation timed out and was reset automatically"
          wasReset(rec) == rec.status = "failed" /\ rec.errorMessage = resetMessage
      IN /\ ResetStuckOperations(FiveMinutes)
              => \A id \in DOMAIN CookieRefresh :
                   IF /\ CookieRefresh[id].status = "in_progress"
                      /\ CookieRefresh[id].startTime < now - FiveMinutes
                     THEN wasReset(CookieRefresh'[id])
                     ELSE CookieRefresh'[id] = CookieRefresh[id]
         /\ \A id \in DOMAIN CookieRefresh :
              wasReset(CookieRefresh[id])
                => /\ id \in DOMAIN CookieRefresh'
                   /\ CookieRefresh'[id] = CookieRefresh[id]
         /\ \A k \in DOMAIN markCalls \ DOMAIN markCalls' :
              ( /\ markCalls[k].refreshId \in DOMAIN CookieRefresh
                /\ wasReset(CookieRefresh[markCalls[k].refreshId]) )
                => markOutcome' = "Refresh record not found or already completed"
       ]_vars

\* C28: the detached promise of a session never rejects, whatever the
\* capability call, storeCookies and updateEventMetrics do, and a session
\* whose promise has settled holds no slot.
C28_SessionNeverRejects ==
  /\ rejections = {}
  /\ activeBrowsers \subseteq DOMAIN sessions

\* C29: a browser context is open only while the session whose refreshCookies
\* call opened it holds its slot: what a call abandoned by the timeout opened,
\* or opens later, is closed before the slot is freed.
C29_AbandonedCallClosesContexts ==
  \A e \in DOMAIN contexts : contexts[e] \in activeBrowsers

\* C30: the executors of refreshPromise that are running, the abandoned ones
\* and those of retries included, are never more than maxConcurrentBrowsers.
C30_ExecutorsWithinCap ==
  Cardinality(DOMAIN executors) <= MaxConcurrentBrowsers

\* C31: a proxy enters the failed set only in a step where initBrowser failed
\* with a proxy-related error, and an attempt of refreshCookies that fails
\* after its launch (the timeout of the race, a capture that found no
\* cookies; the catch is the same step whatever the cause, a proxy cause
\* included) leaves the proxy it used in the failed set.
C31_MarksOnlyAndAllProxyCauses ==
  [][ /\ failedProxies' \ failedProxies # {}
           => \E r \in DOMAIN refreshCalls : RefreshCookiesInitFails(r, TRUE)
      /\ \A r \in DOMAIN refreshCalls :
           ( /\ RefreshCookiesRetries(r)
             /\ refreshCalls[r].pc = "navigating"
             /\ refreshCalls[r].currentProxy # NoProxy )
           => refreshCalls[r].currentProxy \in failedProxies' ]_vars

\* C32: what a session hands to storeCookies, and so every document a session
\* stored, passed the three checks of captureCookies: it is not empty, has at
\* least 3 ticketmaster.com cookies and at least 200 lines of JSON.
C32_StoresOnlyValidated ==
  LET valid(cookies) ==
        /\ Len(cookies) > 0
        /\ Len(SelectSeq(cookies, LAMBDA c : c.domain = ".ticketmaster.com")) >= 3
        /\ 2 + LinesPerCookie * Len(cookies) >= 200
  IN /\ \A c \in DOMAIN Cookie : valid(Cookie[c].cookies)
     /\ \A s \in DOMAIN visits :
          visits[s].pc = "storeCookies" => valid(visits[s].cookies)

\* C32 witness: a session stored a capture of 20 cookies, the fewest that make
\* 200 lines of JSON, and ended without a rejection
C32_Witness ==
  /\ \E c \in DOMAIN Cookie : Len(Cookie[c].cookies) = 20
  /\ sessions = <<>>
  /\ rejections = {}

\* C33: captureCookies makes at most 5 iterations per executor, refreshCookies
\* at most MAX_REFRESH_RETRIES + 1 attempts per call, processSingleEvent at
\* most maxRetries + 1 iterations, and the session of the tick ends.
C33_SessionTerminates ==
  /\ [](/\ \A e \in DOMAIN executors :
             executors[e].captureRetry <= MaxCaptureRetries - 1
        /\ \A s \in DOMAIN visits : visits[s].retryCount <= MaxRefreshRetries
        /\ \A s \in DOMAIN sessions : sessions[s] <= MaxRetries + 1)
  /\ (sessions # <<>>) ~> (sessions = <<>>)

\* C33 witness: the three loops of a session are in their last iteration
C33_Witness ==
  \E e \in DOMAIN executors :
    /\ executors[e].captureRetry = MaxCaptureRetries - 1
    /\ ~executors[e].abandoned
    /\ visits[executors[e].session].retryCount = MaxRefreshRetries
    /\ sessions[executors[e].session] = MaxRetries

\* C34: when refreshCookies, called without a proxy and with at least two
\* proxies configured, retries, the proxy of the new attempt differs from the
\* proxy of the attempt before it unless getFreshProxy used up its 10 picks.
C34_RetryAvoidsPreviousProxy ==
  [][ \A r \in DOMAIN refreshCalls :
        ( /\ RefreshCookiesRetries(r)
          /\ r \in DOMAIN refreshCalls'
          /\ Cardinality(Range(proxies)) >= 2
          /\ refreshCalls[r].currentProxy # NoProxy )
        => \/ refreshCalls'[r].currentProxy # refreshCalls[r].currentProxy
           \/ refreshCalls'[r].picks >= MaxFreshAttempts ]_vars

\* C35: when a session frees its slot the tracker holds a record of its
\* attempt, and the record is terminal (success or failed), not in_progress.
C35_ReleasedSessionIsTracked ==
  [][ activeBrowsers \ activeBrowsers' # {}
        => /\ CookieRefresh' # <<>>
           /\ \A id \in DOMAIN CookieRefresh' :
                CookieRefresh'[id].status \in Terminal ]_vars

\* C36: a tick whose getRandomEvent returns no event adds no session, leaves
\* activeBrowsers as it was, rejects nothing and leaves the scheduler running
\* as it was, with a visit timer pending or a timer tick still to reschedule.
C36_NoEventIdles ==
  [][ \A t \in DOMAIN ticks :
        StartNewBrowserSession(t, FALSE)
        => /\ activeBrowsers' = activeBrowsers
           /\ sessions' = sessions
           /\ rejections' = rejections
           /\ isRunning' = isRunning
           /\ isRunning =>
                \/ timeouts' # {}
                \/ \E u \in DOMAIN ticks' : ticks'[u].origin = "timer" ]_vars

\* C36 witness: the scheduler runs, its ticks so far have all come back from
\* getRandomEvent without an event, and the next visit is scheduled
C36_Witness ==
  /\ isRunning
  /\ ticks = <<>>
  /\ activeBrowsers = {}
  /\ sessions = <<>>
  /\ visitTimer \in timeouts

\* C38: whatever the sequence of start() and stop() calls, at most one visit
\* timer is pending.
C38_OnePendingVisitTimer == Cardinality(timeouts) <= 1

\* C39: while the scheduler is stopped no session id is added to
\* activeBrowsers.
C39_StoppedAddsNoSession ==
  [][ ~isRunning /\ ~isRunning' => activeBrowsers' \subseteq activeBrowsers ]_vars

\* C37: updateCookieQuality is an atomic read-modify-write: the score a call
\* writes is the score the document has at the write, adjusted once, so that
\* overlapping calls add up as in some serial order.
C37_FeedbackIsAtomic ==
  [][ \A f \in DOMAIN qualityCalls :
        ( /\ UpdateCookieQualityWrites(f)
          /\ qualityCalls[f].cookieId \in DOMAIN Cookie )
        => Cookie'[qualityCalls[f].cookieId].score
             = QualityScore(Cookie[qualityCalls[f].cookieId].score,
                            qualityCalls[f].success) ]_vars

\* C40: a record that leaves the CookieRefresh collection was terminal
\* (success or failed): no record is deleted while it is in_progress.
C40_PrunesOnlyTerminal ==
  [][ \A id \in DOMAIN CookieRefresh \ DOMAIN CookieRefresh' :
        CookieRefresh[id].status \in Terminal ]_vars

=============================================================================
